---- MODULE Spec2Model ----
(***************************************************************************)
(* Model of the translation orchestration code of mtlbook/trnsl:           *)
(*   - the Semaphore of concurrency.js                                     *)
(*   - translateContentParallel of scripts/ai_query.js                     *)
(*   - the title batching of main (scripts/ai_query.js) and translateTitles*)
(*   - the translateContent / translateItem variants                       *)
(*   - two batch runs sharing the module variable currentModelIndex        *)
(*   - the chunker of the last-resort stage (scripts/ai_query.js)          *)
(*   - processJson of scripts/translate.js                                 *)
(*   - the last-resort loop of scripts/ai_query.js, request by request     *)
(*   - translateWithModel, the single-unit translator                      *)
(*   - main: parseRange and the sequential batch loops                     *)
(*   - the per-title fallback chain of scripts/ai_query.js                 *)
(*   - translateContentByPhrases                                           *)
(* JavaScript is single threaded: one action is one synchronous segment of *)
(* a handler, from the point it is resumed to its next await.              *)
(***************************************************************************)
EXTENDS Integers, Sequences, FiniteSets, TLC

\* ------------------------------------------------------------------ bounds
MaxCap == 2
NumCallers == 4
MaxItems == 3
MaxTitles == 41
MaxInvocations == 3
MaxRunCalls == 2
MaxTextLen == 5
MaxChunkSize == 5
MaxChapters == 4
MaxPerRequest == 4
MaxRangeLen == 3
MaxList == 3
MaxSliceLen == 3

Callers == 1..NumCallers

VARIABLES
  \* Semaphore (concurrency.js)
  max,          \* this.max
  running,      \* this.running
  queue,        \* this.queue: the queued tryRun closures, by caller
  pc,           \* where each caller of run() stands
  taskResult,   \* how the caller's task settled ("none" before)
  runResult,    \* how the caller's run() settled ("none" before)
  released,     \* number of release() calls made by the caller's run()
  callOrder,    \* callers in the order they called acquire()
  grantOrder,   \* callers in the order acquire() resolved for them
  \* translateContentParallel (scripts/ai_query.js)
  nItems,       \* items.length
  pstate,       \* per item: its timer is pending, its call is in flight, or resolved
  now,          \* milliseconds since translateContentParallel was called
  startedAt,    \* per item: the time its translateContent call started (-1 before)
  results,      \* what Promise.all collects: one slot per promise of items.map
  doneOrder,    \* items in the order their translateContent calls returned
  parOut,       \* the value translateContentParallel returns
  \* title translation (main of scripts/ai_query.js, translateTitles)
  tVariant,     \* which of the two title translators runs
  nTitles,      \* originalTitles.length
  tpc,          \* the await the title translation is suspended at
  ti,           \* the loop index i of the slice loop
  translatedTitles, \* translatedTitles (ai_query.js) / titleResults (translateTitles)
  titleOut,     \* the titles of the records handed on, once title translation is over
  titleRequests, \* the combined title requests answered so far: range and verdict
  \* translateContent (part_005 297-349, scripts/ai_query.js) and translateItem (part_004)
  tcVariant,    \* which variant of the per-item translator runs
  currentModelIndex, \* part_005:214, 1-based here
  tcpc,         \* the await the invocation is suspended at
  tcModel,      \* the backend of the call that is outstanding
  loopI,        \* the loop index i of part_005:306, 1-based here
  attempt,      \* attempt of the last-resort loop (ai_query.js:177)
  calls,        \* backend calls of the invocation so far, with what each returned
  entryIndex,   \* currentModelIndex when the invocation began
  tcLeft,       \* invocations the batch loop has still to make
  tcResult,     \* what the invocation returned
  waits,        \* the setTimeout delays of the last-resort loop (ai_query.js:226), in ms
  lastWinner,   \* index of the non-primary model that succeeded last (0: none yet)
  winnerFailed, \* a call to that model has failed since
  \* two batch runs of part_005:351-424 in one process, sharing currentModelIndex
  rpc,          \* per run: the await its translateContent invocation is suspended at
  rModel,       \* per run: the backend of its outstanding call
  rLoopI,       \* per run: the loop index i of part_005:306, 1-based here
  rLeft,        \* per run: invocations its batch loop has still to make
  rResult,      \* per run: what its last invocation returned
  rOwnIndex,    \* per run: the index its own fallback successes have led to
  \* the chunker of the last-resort stage (scripts/ai_query.js:182-196)
  content,      \* the text to translate, a sequence of characters
  chunkSize,    \* CHUNK_SIZE
  chunks,       \* the chunks array once the chunker has run
  cpc,          \* "start" before the chunker has run, "done" after
  \* processJson (scripts/translate.js:169-215)
  nChapters,    \* chapters.length
  chaptersPerRequest, \* the configured number of chapters per request
  currentBatchSize,   \* currentBatchSize
  chapterI,     \* the loop index i
  translatedChapters, \* translatedChapters: for each entry the chapter it stands for
  bpc,          \* the await processJson is suspended at, or how it ended
  sizeOneFailures,    \* the indices i at which a sub-batch of size 1 failed
  failuresInARow,     \* translateChapters calls that failed since i last advanced
  attemptsMade,       \* translateChapters calls that have returned or thrown
  \* the last-resort loop of translateContent, request by request
  \* (scripts/ai_query.js:176-232)
  lrContent,    \* content
  lrSize,       \* CHUNK_SIZE
  lrChunks,     \* chunks of the attempt under way
  lrAttempt,    \* attempt
  lrSent,       \* the q of every request sent in the attempt under way, in order
  lrAnswered,   \* how many of them have been answered
  lrTranslated, \* translated, as the sequence of the pieces appended to it
  lrFrom,             \* for each piece of translated, the attempt that obtained it
  lrpc,         \* the await the loop is suspended at
  lrResult,     \* what translateContent returned
  \* translateWithModel (part_005:61-92 and part_005:264-290)
  twVariant,    \* which of the two translateWithModel functions runs
  twModel,      \* modelName
  twCalls,      \* generateContent calls made by the invocation under way
  twResp,       \* what the last generateContent call came back as
  twpc,         \* "idle", "call" (the await of generateContent) or "returned"
  twLeft,       \* invocations still to come
  twOut,        \* how the last invocation ended
  \* main: the range of items and the sequential batch loop
  \* (scripts/ai_query.js:264-335, part_004:104-140, part_005:351-424)
  mnVariant,    \* which main runs
  rangeStr,     \* rangeStr, a sequence of characters
  jsonLen,      \* jsonData.length
  rangeStart,   \* start, as parseRange returned it
  rangeEnd,     \* end, as parseRange returned it
  itemI,        \* the loop index i
  itemsInRange, \* itemsInRange: the indices of jsonData that slice() picked
  translatedItems, \* translatedItems: the result pushed for each item
  successCount, \* successCount
  failCount,    \* failCount (part_005)
  prohibitedCount, \* prohibitedCount (part_005)
  indicesRead,  \* the indices i at which jsonData[i] was read
  mnpc,         \* the await main is suspended at, or how it ended
  \* the per-title fallback of a failed slice (scripts/ai_query.js:83-123, 299-321)
  sliceLen,     \* titles.length of the slice
  gtpc,         \* for each title, the await its googleTranslateTitle call stands at
  gtCalls,      \* for each title, the network calls made for it and their answers
  gtValue,      \* for each title, what its promise resolved with
  itemTitles,   \* the title of each item of itemsWithTranslatedTitles
  \* translateContentByPhrases (part_003:181-248)
  phContent,    \* content
  phrases,      \* phrases
  translatedPhrases, \* translatedPhrases
  failedPhrases,     \* failedPhrases
  phpc,         \* "off", "called" or "settled"
  phOut         \* how the call settled

semVars == <<max, running, queue, pc, taskResult, runResult, released, callOrder, grantOrder>>

parVars == <<nItems, pstate, now, startedAt, results, doneOrder, parOut>>

ttlVars == <<tVariant, nTitles, tpc, ti, translatedTitles, titleOut, titleRequests>>

tcVars == <<tcVariant, currentModelIndex, tcpc, tcModel, loopI, attempt, calls, entryIndex,
            tcLeft, tcResult, waits, lastWinner, winnerFailed>>

\* the variables of translateContent other than the module variable
tcLocals == <<tcVariant, tcpc, tcModel, loopI, attempt, calls, entryIndex, tcLeft, tcResult,
              waits, lastWinner, winnerFailed>>

runVars == <<rpc, rModel, rLoopI, rLeft, rResult, rOwnIndex>>

chunkVars == <<content, chunkSize, chunks, cpc>>

batchVars == <<nChapters, chaptersPerRequest, currentBatchSize, chapterI, translatedChapters,
               bpc, sizeOneFailures, failuresInARow, attemptsMade>>

lastVars == <<lrContent, lrSize, lrChunks, lrAttempt, lrSent, lrAnswered, lrTranslated, lrFrom, lrpc,
              lrResult>>

unitVars == <<twVariant, twModel, twCalls, twResp, twpc, twLeft, twOut>>

titleVars == <<sliceLen, gtpc, gtCalls, gtValue, itemTitles>>

phrVars == <<phContent, phrases, translatedPhrases, failedPhrases, phpc, phOut>>

mainVars == <<mnVariant, rangeStr, jsonLen, rangeStart, rangeEnd, itemI, itemsInRange,
              translatedItems, successCount, failCount, prohibitedCount, indicesRead, mnpc>>

vars == <<semVars, parVars, ttlVars, tcVars, runVars, chunkVars, batchVars, lastVars, unitVars, mainVars, titleVars, phrVars>>

\* what the actions of one component leave alone
notSem == <<parVars, ttlVars, tcVars, runVars, chunkVars, batchVars, lastVars, unitVars, mainVars, titleVars, phrVars>>
notPar == <<semVars, ttlVars, tcVars, runVars, chunkVars, batchVars, lastVars, unitVars, mainVars, titleVars, phrVars>>
notTtl == <<semVars, parVars, tcVars, runVars, chunkVars, batchVars, lastVars, unitVars, mainVars, titleVars, phrVars>>
notTc == <<semVars, parVars, ttlVars, runVars, chunkVars, batchVars, lastVars, unitVars, mainVars, titleVars, phrVars>>
notRuns == <<semVars, parVars, ttlVars, tcLocals, chunkVars, batchVars, lastVars, unitVars, mainVars, titleVars, phrVars>>
notChunk == <<semVars, parVars, ttlVars, tcVars, runVars, batchVars, lastVars, unitVars, mainVars, titleVars, phrVars>>
notLast == <<semVars, parVars, ttlVars, tcVars, runVars, chunkVars, batchVars, unitVars, mainVars, titleVars, phrVars>>
notUnit == <<semVars, parVars, ttlVars, tcVars, runVars, chunkVars, batchVars, lastVars, mainVars, titleVars, phrVars>>
notBatch == <<semVars, parVars, ttlVars, tcVars, runVars, chunkVars, lastVars, unitVars, mainVars, titleVars, phrVars>>
notPhr == <<semVars, parVars, ttlVars, tcVars, runVars, chunkVars, batchVars, lastVars, unitVars, mainVars, titleVars>>
notTitle == <<semVars, parVars, ttlVars, tcVars, runVars, chunkVars, batchVars, lastVars, unitVars, mainVars, phrVars>>
notMain == <<semVars, parVars, ttlVars, tcVars, runVars, chunkVars, batchVars, lastVars, unitVars, titleVars, phrVars>>

\* ---------------------------------------------------------------- Semaphore

\* if (this.running < this.max)
CanRunOffByOne(r, m) == r <= m
CanRun(r, m) == r < m

\* this.queue.shift(): the closure taken and the queue left
ShiftLast(q) == [fn |-> q[Len(q)], rest |-> SubSeq(q, 1, Len(q) - 1)]
Shift(q) == [fn |-> Head(q), rest |-> Tail(q)]

\* try { return await fn() } finally { this.release() }: release runs on both paths
FinallyOnReturnOnly(outcome) == outcome = "returned"
Finally(outcome) == outcome \in {"returned", "threw"}

SemOff ==
  /\ max = 1
  /\ running = 0
  /\ queue = <<>>
  /\ pc = [c \in Callers |-> "off"]
  /\ taskResult = [c \in Callers |-> "none"]
  /\ runResult = [c \in Callers |-> "none"]
  /\ released = [c \in Callers |-> 0]
  /\ callOrder = <<>>
  /\ grantOrder = <<>>

\* new Semaphore(max), max >= 1, and no caller yet
SemInit ==
  /\ max \in 1..MaxCap
  /\ running = 0
  /\ queue = <<>>
  /\ pc = [c \in Callers |-> "idle"]
  /\ taskResult = [c \in Callers |-> "none"]
  /\ runResult = [c \in Callers |-> "none"]
  /\ released = [c \in Callers |-> 0]
  /\ callOrder = <<>>
  /\ grantOrder = <<>>

\* run(fn) up to its first await: acquire() runs its executor, which calls tryRun
CallRun(c) ==
  /\ pc[c] = "idle"
  /\ callOrder' = Append(callOrder, c)
  /\ IF CanRun(running, max)
       THEN /\ running' = running + 1
            /\ pc' = [pc EXCEPT ![c] = "acquired"]
            /\ grantOrder' = Append(grantOrder, c)
            /\ queue' = queue
       ELSE /\ queue' = Append(queue, c)
            /\ pc' = [pc EXCEPT ![c] = "waiting"]
            /\ UNCHANGED <<running, grantOrder>>
  /\ UNCHANGED <<max, taskResult, runResult, released>>
  /\ UNCHANGED notSem

\* run(fn) resumed after await this.acquire(): fn() is called and awaited
StartTask(c) ==
  /\ pc[c] = "acquired"
  /\ pc' = [pc EXCEPT ![c] = "in_task"]
  /\ UNCHANGED <<max, running, queue, taskResult, runResult, released, callOrder, grantOrder>>
  /\ UNCHANGED notSem

\* fn() settles: the finally block calls release(), which runs the first queued
\* tryRun synchronously; then run() settles the way fn() did
TaskSettles(c, outcome) ==
  /\ pc[c] = "in_task"
  /\ taskResult' = [taskResult EXCEPT ![c] = outcome]
  /\ runResult' = [runResult EXCEPT ![c] = outcome]
  /\ IF Finally(outcome)
       THEN /\ released' = [released EXCEPT ![c] = @ + 1]
            /\ IF Len(queue) > 0
                 THEN LET w == Shift(queue).fn
                          rest == Shift(queue).rest
                      IN IF CanRun(running - 1, max)
                           THEN /\ running' = (running - 1) + 1
                                /\ queue' = rest
                                /\ pc' = [pc EXCEPT ![c] = "settled", ![w] = "acquired"]
                                /\ grantOrder' = Append(grantOrder, w)
                           ELSE /\ running' = running - 1
                                /\ queue' = Append(rest, w)
                                /\ pc' = [pc EXCEPT ![c] = "settled"]
                                /\ grantOrder' = grantOrder
                 ELSE /\ running' = running - 1
                      /\ pc' = [pc EXCEPT ![c] = "settled"]
                      /\ UNCHANGED <<queue, grantOrder>>
       ELSE /\ pc' = [pc EXCEPT ![c] = "settled"]
            /\ UNCHANGED <<running, queue, released, grantOrder>>
  /\ UNCHANGED <<max, callOrder>>
  /\ UNCHANGED notSem

SemNext ==
  \/ \E c \in Callers : CallRun(c)
  \/ \E c \in Callers : StartTask(c)
  \/ \E c \in Callers, outcome \in {"returned", "threw"} : TaskSettles(c, outcome)

\* ------------------------------------------------------------ Semaphore: claims

\* callers that have acquired and not yet released
Holders == {c \in Callers : pc[c] \in {"acquired", "in_task"}}

IsPrefix(s, t) == Len(s) <= Len(t) /\ \A k \in 1..Len(s) : s[k] = t[k]

\* C1: the number of callers that have acquired and not yet released never
\* exceeds max, in any reachable state of any interleaving of run() callers.
C1_HoldersAtMostMax == Cardinality(Holders) <= max

\* as many holders as the capacity while another caller waits
C1_Witness == Cardinality(Holders) = max /\ Len(queue) > 0

\* C2: a release() with a non-empty queue unblocks exactly one waiter, the one
\* that called acquire() earliest, and acquire() resolves for the callers in
\* the order in which they called it.
C2_FifoWakeup ==
  [][ /\ \A c \in Callers :
          (pc[c] = "in_task" /\ pc'[c] = "settled" /\ Len(queue) > 0) =>
             /\ {w \in Callers : pc[w] = "waiting" /\ pc'[w] = "acquired"} = {Head(queue)}
             /\ queue' = Tail(queue)
      /\ IsPrefix(grantOrder', callOrder') ]_vars

\* a release has handed the semaphore to a waiter while others still wait
C2_Witness == Len(grantOrder) > max /\ Len(queue) > 1

\* C3: once run(task) has settled it has called release() exactly once, it
\* settled the way the task did (a throw is propagated), and when every run()
\* has settled all the capacity is back.
C3_RunReleasesOnce ==
  /\ \A c \in Callers :
        pc[c] = "settled" =>
          /\ released[c] = 1
          /\ runResult[c] = taskResult[c]
          /\ taskResult[c] \in {"returned", "threw"}
  /\ (\A c \in Callers : pc[c] = "settled") => running = 0

\* every run() has settled and one of the tasks threw
C3_Witness ==
  /\ \A c \in Callers : pc[c] = "settled"
  /\ \E c \in Callers : taskResult[c] = "threw" /\ runResult[c] = "threw" /\ released[c] = 1

\* C34: with the semaphore used only through run(), 0 <= running <= max in every
\* reachable state, running is the number of callers holding a slot, and callers
\* wait in the queue only while running = max: no waiter stays queued while
\* capacity is free.
C34_NoLostWakeup ==
  /\ 0 <= running
  /\ running <= max
  /\ running = Cardinality(Holders)
  /\ Len(queue) > 0 => running = max
  /\ \A c \in Callers : pc[c] = "waiting" <=> \E k \in 1..Len(queue) : queue[k] = c

\* a release has passed its slot on to a waiter, and with the capacity of two in
\* use again another caller still waits
C34_Witness ==
  /\ max = 2 /\ running = 2
  /\ Len(queue) > 0
  /\ \E c \in Callers : pc[c] = "settled"
  /\ Len(grantOrder) = 3

\* C35: for max >= 1, if every task given to run() eventually finishes, every
\* call of run() eventually starts its task and eventually settles, however many
\* callers are queued: from some moment on every caller that called run() has
\* settled, and a settled caller's task has run.
C35_EveryRunSettles ==
  /\ [](\A c \in Callers : pc[c] = "settled" => taskResult[c] \in {"returned", "threw"})
  /\ <>[](\A c \in Callers : pc[c] \in {"idle", "settled"})

\* with a capacity of one, every caller was granted the slot in turn and all the
\* calls of run() have settled
C35_Witness ==
  /\ max = 1
  /\ Len(grantOrder) = NumCallers
  /\ \A c \in Callers : pc[c] = "settled"

\* ------------------------------------------- translateContentParallel (ai_query.js)

DELAY == 4000

Items == 1..nItems

\* item idx (0-based idx - 1) gets setTimeout(..., idx * DELAY)
TimerDelayNone(idx) == 0

TimerDelay(idx) == (idx - 1) * DELAY

\* what one translateContent(item.content) call can return (ai_query.js 140-232)
ContentResults ==
  { [translated |-> TRUE,  kind |-> "translation", model |-> "gemini-2.5-flash-lite"],
    [translated |-> TRUE,  kind |-> "translation", model |-> "gemini-2.5-flash"],
    [translated |-> TRUE,  kind |-> "translation", model |-> "google translate"],
    [translated |-> FALSE, kind |-> "original",    model |-> "google translate"] }

\* a slot of the Promise.all result array whose promise is still pending
PendingSlot == [title |-> 0, content |-> [kind |-> "none", of |-> 0], model |-> "none",
                ok |-> FALSE, settled |-> FALSE]

\* resolve({title: item.title, content: res.content, model: res.model, ok: res.translated})
ResolvedValue(idx, res) ==
  [title |-> idx, content |-> [kind |-> res.kind, of |-> idx], model |-> res.model,
   ok |-> res.translated, settled |-> TRUE]

\* Promise.all keeps the value of promise idx in slot idx
FirstPending(rs) == CHOOSE k \in DOMAIN rs : ~rs[k].settled /\ \A j \in 1..(k - 1) : rs[j].settled
CollectInCompletionOrder(rs, idx, val) == [rs EXCEPT ![FirstPending(rs)] = val]
Collect(rs, idx, val) == [rs EXCEPT ![idx] = val]

\* results.filter(r => r.ok).length
CountOk(rs) == Cardinality({k \in DOMAIN rs : rs[k].ok})

\* results.map(({ ok, ...rest }) => rest)
StripOk(rs) == [k \in DOMAIN rs |-> [title |-> rs[k].title, content |-> rs[k].content, model |-> rs[k].model]]

NoParOut == [returned |-> FALSE, translatedItems |-> <<>>, successCount |-> 0, failCount |-> 0]

ParOff ==
  /\ nItems = 0
  /\ pstate = <<>>
  /\ now = 0
  /\ startedAt = <<>>
  /\ results = <<>>
  /\ doneOrder = <<>>
  /\ parOut = [NoParOut EXCEPT !.returned = TRUE]

\* translateContentParallel(items) up to await Promise.all: one timer per item
ParInit ==
  /\ nItems \in 0..MaxItems
  /\ pstate = [i \in 1..nItems |-> "timer"]
  /\ now = 0
  /\ startedAt = [i \in 1..nItems |-> -1]
  /\ results = [i \in 1..nItems |-> PendingSlot]
  /\ doneOrder = <<>>
  /\ parOut = NoParOut

\* the timer of item idx fires: translateContent(item.content) is called
TimerFires(idx) ==
  /\ pstate[idx] = "timer"
  /\ TimerDelay(idx) <= now
  /\ \A j \in Items : (pstate[j] = "timer" /\ j # idx) => TimerDelay(idx) <= TimerDelay(j)
  /\ pstate' = [pstate EXCEPT ![idx] = "inflight"]
  /\ startedAt' = [startedAt EXCEPT ![idx] = now]
  /\ UNCHANGED <<nItems, now, results, doneOrder, parOut>>
  /\ UNCHANGED notPar

\* time passes up to the next timer that is due; no timer is overdue
TimePasses ==
  /\ \E j \in Items : pstate[j] = "timer"
  /\ \A j \in Items : pstate[j] = "timer" => TimerDelay(j) > now
  /\ now' = now + DELAY
  /\ UNCHANGED <<nItems, pstate, startedAt, results, doneOrder, parOut>>
  /\ UNCHANGED notPar

\* the translateContent call of item idx returns res: its promise resolves
CallReturns(idx, res) ==
  /\ pstate[idx] = "inflight"
  /\ pstate' = [pstate EXCEPT ![idx] = "resolved"]
  /\ results' = Collect(results, idx, ResolvedValue(idx, res))
  /\ doneOrder' = Append(doneOrder, idx)
  /\ UNCHANGED <<nItems, now, startedAt, parOut>>
  /\ UNCHANGED notPar

\* Promise.all has resolved: count and return
ParReturns ==
  /\ ~parOut.returned
  /\ \A j \in Items : pstate[j] = "resolved"
  /\ parOut' = [returned |-> TRUE,
                translatedItems |-> StripOk(results),
                successCount |-> CountOk(results),
                failCount |-> Len(results) - CountOk(results)]
  /\ UNCHANGED <<nItems, pstate, now, startedAt, results, doneOrder>>
  /\ UNCHANGED notPar

ParNext ==
  \/ \E idx \in Items : TimerFires(idx)
  \/ TimePasses
  \/ \E idx \in Items, res \in ContentResults : CallReturns(idx, res)
  \/ ParReturns

\* ------------------------------------------- translateContentParallel: claims

InFlight == {i \in Items : pstate[i] = "inflight"}

\* C4: at every moment the number of translateContent calls that have started
\* and not yet finished is at most the capacity of the Concurrency Limiter.
\* ai_query.js imports Semaphore but translateContentParallel never builds or
\* uses one; max stands for whatever capacity (1..MaxCap) the limiter would have.
C4_InFlightAtMostCapacity == Cardinality(InFlight) <= max

\* C5: for every completion order, the returned translatedItems has the length
\* of items, and translatedItems[i] carries the title of items[i] and the content
\* produced for items[i].
C5_PositionalResults ==
  parOut.returned =>
    /\ Len(parOut.translatedItems) = nItems
    /\ \A i \in Items :
          /\ parOut.translatedItems[i].title = i
          /\ parOut.translatedItems[i].content.of = i
          /\ parOut.translatedItems[i].content.kind \in {"translation", "original"}

\* the run has returned for three items or more whose calls returned last first
C5_Witness ==
  /\ parOut.returned
  /\ nItems >= 3
  /\ \A k \in 1..(nItems - 1) : doneOrder[k] > doneOrder[k + 1]

\* C21: in the batch summary successCount is the number of items whose result
\* came from a backend other than the last resort and is not the original text,
\* and failCount is the number of items whose original text was kept; an item
\* translated by the last-resort endpoint is not counted in successCount.
C21_CountsByBackend ==
  parOut.returned =>
    /\ parOut.successCount =
         Cardinality({i \in Items : /\ results[i].model # "google translate"
                                    /\ results[i].content.kind # "original"})
    /\ parOut.failCount = Cardinality({i \in Items : results[i].content.kind = "original"})

\* C23: the translateContent call of the item at 0-based index i starts no
\* earlier than i * DELAY after translateContentParallel was called, item 0 at
\* time 0; and for i < j the call of item i has started no later than that of
\* item j, whenever the calls of earlier items return.
C23_StaggeredStart ==
  \A j \in Items :
    startedAt[j] # -1 =>
      /\ startedAt[j] >= (j - 1) * DELAY
      /\ j = 1 => startedAt[j] = 0
      /\ \A i \in 1..(j - 1) : startedAt[i] # -1 /\ startedAt[i] <= startedAt[j]

\* the third item has started 2 * DELAY after the start while the call of the
\* first item is still in flight and that of the second has returned
C23_Witness ==
  /\ nItems >= 3
  /\ startedAt[3] = 2 * DELAY
  /\ pstate[1] = "inflight" /\ pstate[2] = "resolved" /\ pstate[3] = "inflight"

\* ------------------------------------------------------- title translation

BATCH_SIZE == 20

Min(a, b) == IF a <= b THEN a ELSE b

\* originalTitles.slice(i, i + BATCH_SIZE).length
SliceLen(i, n) == Min(i + BATCH_SIZE, n) - i

\* What a combined title request for len titles can come back as: an error or an
\* empty text (ok = FALSE), or lines. ai_query.js counts response.text.split('\n'),
\* which has at least one element and may hold an empty line (blankAt);
\* translateTitleBatch drops empty lines before it counts.
BatchResponses(variant, len) ==
  {[ok |-> FALSE, len |-> 0, blankAt |-> 0]} \cup
  { [ok |-> TRUE, len |-> l, blankAt |-> b] :
      l \in {k \in {len - 1, len, len + 1} : k >= (IF variant = "ai_query" THEN 1 ELSE 0)},
      b \in {0} \cup (IF variant = "ai_query" THEN {1, len} ELSE {}) }

\* the lines of a response to the titles i+1 .. i+len (1-based): line k answers
\* the k-th title submitted; a line beyond the titles submitted answers none
ResponseLines(i, len, resp) ==
  [k \in 1..resp.len |->
     [src |-> IF k <= len THEN i + k ELSE 0,
      via |-> IF k = resp.blankAt THEN "blank" ELSE "batch"]]

\* res && res.length === titles.length
BatchAcceptedAnyCount(resp, len) == resp.ok
BatchAccepted(resp, len) == resp.ok /\ resp.len = len

\* one entry per title of the slice, translated one by one; the title at origAt
\* (if any) failed on every backend and keeps its original text
IndividualResults(i, len, origAt) ==
  [k \in 1..len |-> [src |-> i + k, via |-> IF k = origAt THEN "original" ELSE "individual"]]

\* for (...; i += BATCH_SIZE)
NextSlice(i) == i + BATCH_SIZE

\* a combined request for the len titles after index i, and whether its answer
\* was taken
Answered(i, len, resp) == [from |-> i, len |-> len, accepted |-> BatchAccepted(resp, len)]

\* itemsInRange.map((item, index) => ({title: translatedTitles[index] || item.title, ...}))
\* in ai_query.js; translateTitles hands its list on as it is and main reads
\* titleTranslations[i].translated for every item of the range
HandOn(variant, tt, n) ==
  IF variant = "ai_query"
    THEN [done |-> TRUE, crashed |-> FALSE,
          titles |-> [k \in 1..n |->
                        IF k <= Len(tt) /\ tt[k].via # "blank"
                          THEN tt[k]
                          ELSE [src |-> k, via |-> "original"]]]
    ELSE [done |-> TRUE, crashed |-> Len(tt) < n,
          titles |-> [k \in 1..Min(n, Len(tt)) |-> tt[k]]]

NoTitleOut == [done |-> FALSE, crashed |-> FALSE, titles |-> <<>>]

TtlOff ==
  /\ tVariant = "ai_query"
  /\ nTitles = 0
  /\ tpc = "off"
  /\ ti = 0
  /\ translatedTitles = <<>>
  /\ titleOut = NoTitleOut
  /\ titleRequests = <<>>

\* the whole-batch request has been sent
TtlInit ==
  /\ tVariant \in {"ai_query", "part_003"}
  /\ nTitles \in 0..MaxTitles
  /\ tpc = "full"
  /\ ti = 0
  /\ translatedTitles = <<>>
  /\ titleOut = NoTitleOut
  /\ titleRequests = <<>>

\* the slice loop is entered at index i: either the next slice request is sent or
\* the loop is over and the titles are handed on
EnterSlice(i, tt) ==
  IF i < nTitles
    THEN /\ tpc' = "slice"
         /\ ti' = i
         /\ translatedTitles' = tt
         /\ titleOut' = titleOut
    ELSE /\ tpc' = "done"
         /\ ti' = i
         /\ translatedTitles' = tt
         /\ titleOut' = HandOn(tVariant, tt, nTitles)

\* the whole-batch request returns
FullBatchReturns(resp) ==
  /\ tpc = "full"
  /\ IF BatchAccepted(resp, nTitles)
       THEN /\ tpc' = "done"
            /\ translatedTitles' = ResponseLines(0, nTitles, resp)
            /\ titleOut' = HandOn(tVariant, ResponseLines(0, nTitles, resp), nTitles)
            /\ ti' = ti
       ELSE EnterSlice(0, <<>>)
  /\ titleRequests' = Append(titleRequests, Answered(0, nTitles, resp))
  /\ UNCHANGED <<tVariant, nTitles>>
  /\ UNCHANGED notTtl

\* the request for the slice at i returns
SliceBatchReturns(resp) ==
  /\ tpc = "slice"
  /\ IF BatchAccepted(resp, SliceLen(ti, nTitles))
       THEN EnterSlice(NextSlice(ti),
                       translatedTitles \o ResponseLines(ti, SliceLen(ti, nTitles), resp))
       ELSE /\ tpc' = "individual"
            /\ UNCHANGED <<ti, translatedTitles, titleOut>>
  /\ titleRequests' = Append(titleRequests, Answered(ti, SliceLen(ti, nTitles), resp))
  /\ UNCHANGED <<tVariant, nTitles>>
  /\ UNCHANGED notTtl

\* the one-by-one translations of the slice at i have all returned
IndividualReturns(origAt) ==
  /\ tpc = "individual"
  /\ EnterSlice(NextSlice(ti),
                 translatedTitles \o IndividualResults(ti, SliceLen(ti, nTitles), origAt))
  /\ UNCHANGED <<tVariant, nTitles, titleRequests>>
  /\ UNCHANGED notTtl

TtlNext ==
  \/ \E resp \in BatchResponses(tVariant, nTitles) : FullBatchReturns(resp)
  \/ \E resp \in BatchResponses(tVariant, SliceLen(ti, nTitles)) : SliceBatchReturns(resp)
  \/ \E origAt \in {0, 1, SliceLen(ti, nTitles)} : IndividualReturns(origAt)

\* ------------------------------------------------- title translation: claims

\* C6: whatever the batch requests return, the final list of translated titles
\* has exactly one entry per item of the range, entry i is the translation (or
\* the original) of the title of item i, and one record per item is handed on
\* in input order.
C6_OneTitlePerItem ==
  tpc = "done" =>
    /\ Len(translatedTitles) = nTitles
    /\ \A k \in 1..nTitles : translatedTitles[k].src = k
    /\ titleOut.done /\ ~titleOut.crashed
    /\ Len(titleOut.titles) = nTitles
    /\ \A k \in 1..nTitles : titleOut.titles[k].src = k /\ titleOut.titles[k].via # "blank"

\* a run over more than two slices in which one slice was accepted as a batch and
\* another went through the one-by-one fallback
C6_Witness ==
  /\ tpc = "done"
  /\ nTitles > 2 * BATCH_SIZE
  /\ \E k \in 1..nTitles : translatedTitles[k].via = "batch"
  /\ \E k \in 1..nTitles : translatedTitles[k].via = "original"

\* C19: when a combined title request for more than one title is rejected (it
\* failed or returned a number of titles other than the number submitted), the
\* next combined request covers the same start of the range with half as many
\* titles (rounded down); a rejected request for 20 titles is followed by a
\* request for its first 10 titles.
C19_MismatchHalvesBatch ==
  \A k \in 1..Len(titleRequests) :
    (~titleRequests[k].accepted /\ titleRequests[k].len > 1 /\ (k < Len(titleRequests) \/ tpc = "done")) =>
      /\ k < Len(titleRequests)
      /\ titleRequests[k + 1].from = titleRequests[k].from
      /\ titleRequests[k + 1].len = titleRequests[k].len \div 2

\* ------------------------------------------------ translateContent variants

MODEL_PRIORITY_LIST == <<"gemini-2.5-flash", "gemini-2.5-pro", "gemini-2.5-flash-lite">>

\* MODEL_NAME of ai_query.js:11 and of part_004:10
MODEL_NAME == "gemini-2.5-flash-lite"

\* translateContent(content, 'gemini-2.5-flash') of ai_query.js:150
QuotaRetrySameModel(model) == model
QuotaRetryModel(model) == "gemini-2.5-flash"

GoogleTranslate == "google translate"

\* FALLBACK_MODEL: part_005:212, ai_query.js:13, part_004:11
FALLBACK_MODEL(variant) == IF variant = "prio" THEN "original content" ELSE "google translate"

MAX_RETRIES == 3

\* What a backend call comes back as. ok: a response with a non-empty text. Else
\* the error caught: its status / error.code (0: it has none, as for the
\* 'Empty response' the code throws itself) and what its message contains.
OkResp == [ok |-> TRUE, code |-> 0, quota |-> FALSE, internal |-> FALSE, prohibited |-> FALSE]

ErrResps ==
  { [ok |-> FALSE, code |-> c, quota |-> q, internal |-> i, prohibited |-> p] :
      c \in {0, 429, 500}, q \in BOOLEAN, i \in BOOLEAN, p \in BOOLEAN }

Resps == {OkResp} \cup ErrResps

\* the last-resort endpoint answers every chunk, or a request fails
NetworkFailure == [ok |-> FALSE, code |-> 0, quota |-> FALSE, internal |-> FALSE, prohibited |-> FALSE]

TooManyRequests == [ok |-> FALSE, code |-> 429, quota |-> TRUE, internal |-> FALSE, prohibited |-> FALSE]

GoogleResps == {OkResp, NetworkFailure, TooManyRequests}

\* result.error?.error?.code === 429
IsQuota429(r) == ~r.ok /\ r.code = 429

\* isProhibitedContentError(result.error)
IsProhibitedContentError(r) == ~r.ok /\ r.prohibited

\* err?.status === 429 || err?.message?.toLowerCase().includes('quota')
IsQuotaErr(r) == ~r.ok /\ (r.code = 429 \/ r.quota)

\* err?.message?.toLowerCase().includes('internal') || err?.status >= 500
IsInternalErr(r) == ~r.ok /\ (r.internal \/ r.code >= 500)

Original == [kind |-> "original", by |-> "none"]
TranslationBy(model) == [kind |-> "translation", by |-> model]

NoResult == [translated |-> FALSE, content |-> [kind |-> "none", by |-> "none"],
             model |-> "none", error |-> "none"]

Translated(model) ==
  [translated |-> TRUE, content |-> TranslationBy(model), model |-> model, error |-> "none"]

\* { translated: false, content, model: FALLBACK_MODEL, error } and
\* { translated: false, content, model: 'google translate' }
\* the failure is thrown on instead: the invocation ends without a result object
NotTranslatedThrown(variant, model, error) == NoResult

NotTranslatedLastTried(variant, model, error) ==
  [translated |-> FALSE, content |-> Original, model |-> model, error |-> error]
NotTranslated(variant, model, error) ==
  [translated |-> FALSE, content |-> Original, model |-> FALLBACK_MODEL(variant), error |-> error]

\* for (let i = currentModelIndex + 1; ...)
FirstFallbackIndexSame(cur) == cur
FirstFallbackIndex(cur) == cur + 1

\* part_005:321-348: what translateContent returns for the last result it holds
PrioFinal(r, model) ==
  IF IsProhibitedContentError(r) THEN NotTranslated("prio", model, "prohibited content")
  ELSE IF r.ok THEN Translated(model)
  ELSE NotTranslated("prio", model, "message")

TcOff ==
  /\ tcVariant = "prio"
  /\ currentModelIndex = 1
  /\ tcpc = "off"
  /\ tcModel = "none"
  /\ loopI = 0
  /\ attempt = 0
  /\ calls = <<>>
  /\ entryIndex = 1
  /\ tcLeft = 0
  /\ tcResult = NoResult
  /\ waits = <<>>
  /\ lastWinner = 0
  /\ winnerFailed = FALSE

\* the module is loaded (let currentModelIndex = 0) and the batch loop has
\* between one and MaxInvocations items to translate
TcInit ==
  /\ tcVariant \in {"prio", "ai_query", "item"}
  /\ currentModelIndex = 1
  /\ tcpc = "idle"
  /\ tcModel = "none"
  /\ loopI = 0
  /\ attempt = 0
  /\ calls = <<>>
  /\ entryIndex = 1
  /\ tcLeft \in 1..MaxInvocations
  /\ tcResult = NoResult
  /\ waits = <<>>
  /\ lastWinner = 0
  /\ winnerFailed = FALSE

Logged(model, r) == Append(calls, [model |-> model, resp |-> r])

\* ai_query.js:226, the delay before the next attempt of the last-resort loop
BackoffDelayFlat(failedAttempts) == 500

BackoffDelay(failedAttempts) == 500 * failedAttempts

\* part_005:309, a success in the fallback loop makes that model the current one
StickyIndexForgotten(current, i) == current

StickyIndexBefore(current, i) == i - 1

StickyIndex(current, i) == i

\* the non-primary model that succeeded last, after the call to model idx returned r
WinnerAfter(r, idx) == IF r.ok /\ idx > 1 THEN idx ELSE lastWinner

WinnerFailedAfter(r, idx) ==
  IF r.ok /\ idx > 1 THEN FALSE ELSE winnerFailed \/ (~r.ok /\ idx = lastWinner)

\* the batch loop calls translateContent / translateItem for its next item: the
\* first backend call is sent
Invoke ==
  /\ tcpc \in {"idle", "done"}
  /\ tcLeft > 0
  /\ tcLeft' = tcLeft - 1
  /\ calls' = <<>>
  /\ tcResult' = NoResult
  /\ attempt' = 0
  /\ loopI' = 0
  /\ entryIndex' = currentModelIndex
  /\ tcModel' = IF tcVariant = "prio" THEN MODEL_PRIORITY_LIST[currentModelIndex] ELSE MODEL_NAME
  /\ tcpc' = CASE tcVariant = "prio" -> "first"
              [] tcVariant = "ai_query" -> "call"
              [] OTHER -> "item"
  /\ waits' = <<>>
  /\ UNCHANGED <<tcVariant, currentModelIndex, lastWinner, winnerFailed>>
  /\ UNCHANGED notTc

\* part_005:299-319, the call to the current model returns
PrioFirstReturns(r) ==
  /\ tcpc = "first"
  /\ calls' = Logged(tcModel, r)
  /\ IF IsQuota429(r) /\ FirstFallbackIndex(currentModelIndex) <= Len(MODEL_PRIORITY_LIST)
       THEN /\ loopI' = FirstFallbackIndex(currentModelIndex)
            /\ tcModel' = MODEL_PRIORITY_LIST[FirstFallbackIndex(currentModelIndex)]
            /\ tcpc' = "loop"
            /\ tcResult' = tcResult
       ELSE /\ tcResult' = PrioFinal(r, tcModel)
            /\ tcpc' = "done"
            /\ UNCHANGED <<loopI, tcModel>>
  /\ lastWinner' = WinnerAfter(r, entryIndex)
  /\ winnerFailed' = WinnerFailedAfter(r, entryIndex)
  /\ UNCHANGED <<tcVariant, currentModelIndex, attempt, entryIndex, tcLeft, waits>>
  /\ UNCHANGED notTc

\* part_005:306-318, the call to MODEL_PRIORITY_LIST[i] returns
PrioLoopReturns(r) ==
  /\ tcpc = "loop"
  /\ calls' = Logged(tcModel, r)
  /\ IF r.ok
       THEN /\ currentModelIndex' = StickyIndex(currentModelIndex, loopI)
            /\ tcResult' = Translated(tcModel)
            /\ tcpc' = "done"
            /\ UNCHANGED <<loopI, tcModel>>
       ELSE IF r.code = 429 /\ loopI + 1 <= Len(MODEL_PRIORITY_LIST)
         THEN /\ loopI' = loopI + 1
              /\ tcModel' = MODEL_PRIORITY_LIST[loopI + 1]
              /\ UNCHANGED <<currentModelIndex, tcResult, tcpc>>
         ELSE /\ tcResult' = PrioFinal(r, tcModel)
              /\ tcpc' = "done"
              /\ UNCHANGED <<currentModelIndex, loopI, tcModel>>
  /\ lastWinner' = WinnerAfter(r, loopI)
  /\ winnerFailed' = WinnerFailedAfter(r, loopI)
  /\ UNCHANGED <<tcVariant, attempt, entryIndex, tcLeft, waits>>
  /\ UNCHANGED notTc

\* ai_query.js:127-174, the call to model returns
AiqCallReturns(r) ==
  /\ tcpc = "call"
  /\ calls' = Logged(tcModel, r)
  /\ IF r.ok
       THEN /\ tcResult' = Translated(tcModel)
            /\ tcpc' = "done"
            /\ tcModel' = tcModel
       ELSE IF IsQuotaErr(r) /\ tcModel = MODEL_NAME /\ MODEL_NAME # "gemini-2.5-flash"
         THEN /\ tcModel' = QuotaRetryModel(tcModel)
              /\ UNCHANGED <<tcResult, tcpc>>
         ELSE IF IsInternalErr(r)
           THEN /\ tcpc' = "retry"
                /\ UNCHANGED <<tcResult, tcModel>>
           ELSE /\ tcpc' = "google"
                /\ UNCHANGED <<tcResult, tcModel>>
  /\ UNCHANGED <<tcVariant, currentModelIndex, loopI, attempt, entryIndex, tcLeft, waits,
                 lastWinner, winnerFailed>>
  /\ UNCHANGED notTc

\* ai_query.js:156-170, the single retry on the same model returns
AiqRetryReturns(r) ==
  /\ tcpc = "retry"
  /\ calls' = Logged(tcModel, r)
  /\ IF r.ok
       THEN /\ tcResult' = Translated(tcModel)
            /\ tcpc' = "done"
       ELSE /\ tcpc' = "google"
            /\ tcResult' = tcResult
  /\ UNCHANGED <<tcVariant, currentModelIndex, tcModel, loopI, attempt, entryIndex, tcLeft,
                 waits, lastWinner, winnerFailed>>
  /\ UNCHANGED notTc

\* ai_query.js:180-229, one attempt of the last-resort loop ends
AiqGoogleAttemptEnds(r) ==
  /\ tcpc = "google"
  /\ calls' = Logged(GoogleTranslate, r)
  /\ IF r.ok
       THEN /\ tcResult' = Translated(GoogleTranslate)
            /\ tcpc' = "done"
            /\ UNCHANGED <<attempt, waits>>
       ELSE /\ attempt' = attempt + 1
            /\ IF attempt + 1 < MAX_RETRIES
                 THEN /\ tcpc' = "backoff"
                      /\ waits' = Append(waits, BackoffDelay(attempt + 1))
                      /\ tcResult' = tcResult
                 ELSE /\ tcpc' = "done"
                      /\ waits' = waits
                      /\ tcResult' = NotTranslated("ai_query", tcModel, "none")
  /\ UNCHANGED <<tcVariant, currentModelIndex, tcModel, loopI, entryIndex, tcLeft,
                 lastWinner, winnerFailed>>
  /\ UNCHANGED notTc

\* ai_query.js:226, the wait of 500 * attempt ms is over: the next attempt starts
AiqBackoffEnds ==
  /\ tcpc = "backoff"
  /\ tcpc' = "google"
  /\ UNCHANGED <<tcVariant, currentModelIndex, tcModel, loopI, attempt, calls, entryIndex,
                 tcLeft, tcResult, waits, lastWinner, winnerFailed>>
  /\ UNCHANGED notTc

\* part_004:61-104, the one call of translateItem returns; parsed: the text holds
\* both the [TITLE] and the [CONTENT] block
ItemReturns(r, parsed) ==
  /\ tcpc = "item"
  /\ calls' = Logged(tcModel, r)
  /\ tcResult' = IF r.ok /\ parsed THEN Translated(MODEL_NAME)
                  ELSE NotTranslated("item", tcModel, "none")
  /\ tcpc' = "done"
  /\ UNCHANGED <<tcVariant, currentModelIndex, tcModel, loopI, attempt, entryIndex, tcLeft,
                 waits, lastWinner, winnerFailed>>
  /\ UNCHANGED notTc

TcNext ==
  \/ Invoke
  \/ \E r \in Resps : PrioFirstReturns(r)
  \/ \E r \in Resps : PrioLoopReturns(r)
  \/ \E r \in Resps : AiqCallReturns(r)
  \/ \E r \in Resps : AiqRetryReturns(r)
  \/ \E r \in GoogleResps : AiqGoogleAttemptEnds(r)
  \/ AiqBackoffEnds
  \/ \E r \in Resps, parsed \in BOOLEAN : ItemReturns(r, parsed)

\* ---------------------------------------------- translateContent: claims

Ranked == tcVariant \in {"prio", "ai_query"}

\* the quota test the variant applies to the answer of a backend call
QuotaFor(variant, r) == IF variant = "prio" THEN IsQuota429(r) ELSE IsQuotaErr(r)

\* the backend ranked right below the one the invocation called first, if any
HasLowerBackend ==
  IF tcVariant = "prio" THEN entryIndex < Len(MODEL_PRIORITY_LIST)
  ELSE calls[1].model = MODEL_NAME

LowerBackend ==
  IF tcVariant = "prio" THEN MODEL_PRIORITY_LIST[entryIndex + 1] ELSE "gemini-2.5-flash"

\* C7: in translateContent over the model priority list, once a backend call has
\* returned an error that isProhibitedContentError classifies as prohibited
\* content no further backend is called, and the invocation returns
\* translated = false, the original content and the error tag "prohibited content".
C7_ProhibitedEndsInvocation ==
  tcVariant = "prio" =>
    \A k \in 1..Len(calls) :
      IsProhibitedContentError(calls[k].resp) =>
        /\ k = Len(calls)
        /\ tcpc = "done"
        /\ tcResult = NotTranslated("prio", calls[k].model, "prohibited content")

\* C8: when the first backend call of an invocation is answered with a quota
\* error and a lower-ranked backend B exists, the next backend call goes to B and
\* the backend called first is never called again in the invocation.
C8_QuotaMovesToNextBackend ==
  (Ranked /\ Len(calls) >= 1 /\ QuotaFor(tcVariant, calls[1].resp) /\ HasLowerBackend) =>
    /\ Len(calls) = 1 => (tcpc \in {"loop", "call"} /\ tcModel = LowerBackend)
    /\ Len(calls) >= 2 => calls[2].model = LowerBackend
    /\ \A k \in 2..Len(calls) : calls[k].model # calls[1].model

\* a finished invocation that began at the second model of the list, got a quota
\* error from it and then an answer from the third
C8_Witness ==
  /\ tcVariant = "prio" /\ tcpc = "done" /\ entryIndex = 2
  /\ Len(calls) = 2
  /\ IsQuota429(calls[1].resp) /\ calls[1].model = MODEL_PRIORITY_LIST[2]
  /\ calls[2].model = MODEL_PRIORITY_LIST[3] /\ calls[2].resp.ok

\* C9: whenever an invocation returns translated = false, the content returned
\* is the original content and model is the last-resort identifier of the variant
\* (translateContent of ai_query.js and of part_005:297-349, translateItem).
C9_NotTranslatedKeepsOriginal ==
  (tcpc = "done" /\ ~tcResult.translated) =>
    /\ tcResult.content = Original
    /\ tcResult.model = FALLBACK_MODEL(tcVariant)

\* both ranked models of ai_query.js and all three last-resort attempts have
\* failed with a quota error
C9_Witness ==
  /\ tcVariant = "ai_query" /\ tcpc = "done" /\ ~tcResult.translated
  /\ Len(calls) = 2 + MAX_RETRIES
  /\ \A k \in 1..Len(calls) : IsQuotaErr(calls[k].resp) /\ ~IsInternalErr(calls[k].resp)

\* C10: when a call to a ranked backend fails with a transient server error
\* (status >= 500 or an 'internal' message), the same backend is called exactly
\* once more; if that retry answers, its text is returned with translated = true
\* and that model's name.
C10_TransientRetriedOnce ==
  (Ranked /\ tcpc = "done") =>
    \A k \in 1..Len(calls) :
      ( /\ calls[k].model # GoogleTranslate
        /\ IsInternalErr(calls[k].resp)
        /\ (k = 1 \/ calls[k - 1].model # calls[k].model) ) =>
          /\ k < Len(calls)
          /\ calls[k + 1].model = calls[k].model
          /\ calls[k + 1].resp.ok => tcResult = Translated(calls[k].model)
          /\ (k + 2 <= Len(calls)) => calls[k + 2].model # calls[k].model

\* the attempts of the last-resort loop made so far in the invocation
GoogleCalls == {k \in 1..Len(calls) : calls[k].model = GoogleTranslate}

FailedGoogleCalls == {k \in GoogleCalls : ~calls[k].resp.ok}

\* C11: the last-resort stage of translateContent (ai_query.js) makes at most
\* MAX_RETRIES = 3 attempts per invocation; it waits once after each failed
\* attempt but the last, each wait twice as long as the one before; when all
\* three attempts have failed the invocation is over and has returned
\* translated = false with the original content.
C11_LastResortBounded ==
  tcVariant = "ai_query" =>
    /\ Cardinality(GoogleCalls) <= MAX_RETRIES
    /\ Len(waits) = IF Cardinality(FailedGoogleCalls) < MAX_RETRIES
                      THEN Cardinality(FailedGoogleCalls) ELSE MAX_RETRIES - 1
    /\ \A k \in 1..Len(waits) : waits[k] > 0
    /\ \A k \in 2..Len(waits) : waits[k] = 2 * waits[k - 1]
    /\ Cardinality(FailedGoogleCalls) = MAX_RETRIES =>
         /\ tcpc = "done"
         /\ ~tcResult.translated
         /\ tcResult.content = Original

\* three failed attempts, a wait of 500 ms after the first and of 1000 ms after
\* the second, none after the third
C11_Witness ==
  /\ tcVariant = "ai_query" /\ tcpc = "done"
  /\ Cardinality(FailedGoogleCalls) = MAX_RETRIES
  /\ waits = <<500, 1000>>
  /\ ~tcResult.translated

\* the ranked backends an invocation has at its disposal
RankedBackends ==
  IF tcVariant = "prio"
    THEN {MODEL_PRIORITY_LIST[i] : i \in entryIndex..Len(MODEL_PRIORITY_LIST)}
    ELSE {MODEL_NAME, QuotaRetryModel(MODEL_NAME)}

LastResortInvoked == GoogleCalls # {}

\* every ranked backend was called in this invocation, and no call to a ranked
\* backend answered or was refused for prohibited content
AllRankedFailed ==
  /\ \A m \in RankedBackends : \E k \in 1..Len(calls) : calls[k].model = m
  /\ \A k \in 1..Len(calls) :
       calls[k].model # GoogleTranslate =>
         ~calls[k].resp.ok /\ ~IsProhibitedContentError(calls[k].resp)

\* C12: in translateContent the last-resort backend is invoked only after every
\* ranked backend has been called and has failed in that invocation for a reason
\* other than content policy; and an invocation in which all ranked backends
\* failed that way does not return before the last resort was invoked.
C12_LastResortOnlyAfterAllRanked ==
  Ranked =>
    /\ LastResortInvoked => AllRankedFailed
    /\ (tcpc = "done" /\ AllRankedFailed) => LastResortInvoked

\* C13: once a non-primary model at index i of MODEL_PRIORITY_LIST has succeeded
\* in a translateContent call, every later translateContent call makes its first
\* backend call to model i, as long as no call to model i has failed since.
C13_StickyFallback ==
  (tcVariant = "prio" /\ lastWinner # 0 /\ ~winnerFailed /\ tcpc = "first") =>
    /\ calls = <<>>
    /\ tcModel = MODEL_PRIORITY_LIST[lastWinner]

\* the second model took over in the first call, answered the second call at once,
\* and the third call goes to it first as well
C13_Witness ==
  /\ tcVariant = "prio" /\ tcpc = "first" /\ tcLeft = 0
  /\ lastWinner = 2 /\ ~winnerFailed
  /\ tcModel = MODEL_PRIORITY_LIST[2]


\* the most backend calls one invocation can make: every model of the list once;
\* in ai_query.js both models, one retry and the attempts of the last-resort loop
MaxCallsOf(variant) ==
  IF variant = "prio" THEN Len(MODEL_PRIORITY_LIST) ELSE 2 + 1 + MAX_RETRIES

\* C22: translateContent absorbs every backend error: whatever errors the models
\* and the last-resort endpoint raise, the invocation makes a bounded number of
\* calls and ends by returning a result object {translated, content, model},
\* with the original content when translated is false; a failed item leaves the
\* batch loop free to go on.
C22_AlwaysSettlesWithResult ==
  Ranked =>
    /\ Len(calls) <= MaxCallsOf(tcVariant)
    /\ tcpc \in {"idle", "first", "loop", "call", "retry", "google", "backoff", "done"}
    /\ tcpc = "done" =>
         /\ tcResult.translated \in BOOLEAN
         /\ tcResult.content.kind \in {"translation", "original"}
         /\ tcResult.model # "none"
         /\ tcResult.translated <=> calls[Len(calls)].resp.ok
         /\ tcResult.translated <=> tcResult.content.kind = "translation"

\* every call of an invocation of ai_query.js failed: both models, the retry and
\* the three attempts of the last-resort loop; the next item is still to come
C22_Witness ==
  /\ tcVariant = "ai_query" /\ tcpc = "done" /\ tcLeft > 0
  /\ Len(calls) = MaxCallsOf("ai_query")
  /\ \A k \in 1..Len(calls) : ~calls[k].resp.ok
  /\ ~tcResult.translated /\ tcResult.content = Original

\* a response without text: the code throws Error('Empty response') itself
\* (ai_query.js:142, part_005:282), an error with no status and no code
EmptyResponse ==
  [ok |-> FALSE, code |-> 0, quota |-> FALSE, internal |-> FALSE, prohibited |-> FALSE]

\* C25: when a ranked backend answers with a malformed (empty) response, the same
\* backend is called exactly once more, and only when that retry has failed too
\* does the invocation go on to the next stage.
C25_MalformedRetriedOnce ==
  (Ranked /\ tcpc = "done") =>
    \A k \in 1..Len(calls) :
      ( /\ calls[k].model # GoogleTranslate
        /\ calls[k].resp = EmptyResponse
        /\ (k = 1 \/ calls[k - 1].model # calls[k].model) ) =>
          /\ k < Len(calls)
          /\ calls[k + 1].model = calls[k].model
          /\ \A j \in (k + 2)..Len(calls) : calls[j].model # calls[k].model

\* the (1-based) index of a model in MODEL_PRIORITY_LIST
IndexOf(model) == CHOOSE i \in 1..Len(MODEL_PRIORITY_LIST) : MODEL_PRIORITY_LIST[i] = model

\* C27: within one translateContent call over MODEL_PRIORITY_LIST only models at
\* or after the sticky index the call began with are invoked, in strictly
\* increasing index order (so each at most once), and the call makes no more
\* backend calls than there are models from that index on, whatever errors occur.
C27_EachModelOnceInOrder ==
  tcVariant = "prio" =>
    /\ \A k \in 1..Len(calls) : IndexOf(calls[k].model) >= entryIndex
    /\ \A k \in 1..Len(calls), l \in 1..Len(calls) :
         k < l => IndexOf(calls[k].model) < IndexOf(calls[l].model)
    /\ Len(calls) <= Len(MODEL_PRIORITY_LIST) - entryIndex + 1

\* a call that began at the second model and ran out of models: both remaining
\* models were called once, in order, and failed
C27_Witness ==
  /\ tcVariant = "prio" /\ tcpc = "done" /\ entryIndex = 2
  /\ Len(calls) = 2
  /\ calls[1].model = MODEL_PRIORITY_LIST[2] /\ calls[2].model = MODEL_PRIORITY_LIST[3]
  /\ ~calls[1].resp.ok /\ ~calls[2].resp.ok

\* C30: during a run the sticky index currentModelIndex stays within
\* MODEL_PRIORITY_LIST and never decreases; it changes only when a model of the
\* fallback loop succeeds in a translateContent call whose first backend call got
\* a quota error (429), and then to the index of that lower-priority model; a
\* call that ends without a translation leaves it unchanged.
C30_StickyIndexMonotone ==
  /\ [](tcVariant = "prio" => currentModelIndex \in 1..Len(MODEL_PRIORITY_LIST))
  /\ [][tcVariant = "prio" =>
          /\ currentModelIndex' >= currentModelIndex
          /\ currentModelIndex' # currentModelIndex =>
               /\ tcpc = "loop" /\ tcpc' = "done"
               /\ calls[1].model = MODEL_PRIORITY_LIST[currentModelIndex]
               /\ IsQuota429(calls[1].resp)
               /\ calls'[Len(calls')].resp.ok
               /\ tcResult'.translated
               /\ currentModelIndex' = IndexOf(calls'[Len(calls')].model)
               /\ currentModelIndex' > currentModelIndex
          /\ (tcpc # "done" /\ tcpc' = "done" /\ ~tcResult'.translated) =>
               currentModelIndex' = currentModelIndex
       ]_vars

\* the index had moved to the second model in an earlier call; in this call the
\* second model was out of quota too and the third one answered, so the index
\* moved on to the third
C30_Witness ==
  /\ tcVariant = "prio" /\ tcpc = "done"
  /\ entryIndex = 2 /\ currentModelIndex = 3
  /\ Len(calls) = 2 /\ IsQuota429(calls[1].resp) /\ calls[2].resp.ok
  /\ tcResult.translated

\* the calls an invocation has made to the AI models
ModelCalls == {k \in 1..Len(calls) : calls[k].model # GoogleTranslate}

\* C37: translateContent of ai_query.js does bounded work whatever errors occur:
\* it calls itself at most once, only for a quota error of the primary model and
\* never from gemini-2.5-flash, so one top-level call makes at most 3 calls to AI
\* models and at most 3 last-resort attempts before it returns.
C37_BoundedWork ==
  tcVariant = "ai_query" =>
    /\ Cardinality(ModelCalls) <= 3
    /\ Cardinality(GoogleCalls) <= 3
    /\ attempt <= MAX_RETRIES
    /\ \A k \in ModelCalls, g \in GoogleCalls : k < g
    /\ \A k \in ModelCalls : calls[k].model \in {MODEL_NAME, "gemini-2.5-flash"}
    /\ \A k \in ModelCalls :
         calls[k].model = "gemini-2.5-flash" =>
           /\ k >= 2
           /\ calls[1].model = MODEL_NAME
           /\ IsQuotaErr(calls[1].resp)
           /\ \A j \in ModelCalls : j > 1 => calls[j].model = "gemini-2.5-flash"
    /\ (tcpc = "done" /\ ~tcResult.translated) => Cardinality(GoogleCalls) = MAX_RETRIES

\* the most work one call can do and still translate: the primary model was out
\* of quota, gemini-2.5-flash failed twice, and the third last-resort attempt
\* succeeded
C37_Witness ==
  /\ tcVariant = "ai_query" /\ tcpc = "done"
  /\ Cardinality(ModelCalls) = 3
  /\ Cardinality(GoogleCalls) = 3
  /\ tcResult.translated

\* ------------------------------- two batch runs sharing currentModelIndex
\* part_005:214 declares currentModelIndex at module level: every batch run
\* (main, part_005:351-424) of the process reads and writes the same variable.
Runs == {"runA", "runB"}

RunsOff ==
  /\ rpc = [r \in Runs |-> "off"]
  /\ rModel = [r \in Runs |-> "none"]
  /\ rLoopI = [r \in Runs |-> 0]
  /\ rLeft = [r \in Runs |-> 0]
  /\ rResult = [r \in Runs |-> NoResult]
  /\ rOwnIndex = [r \in Runs |-> 1]

\* both runs have between one and MaxRunCalls items to translate
RunsInit ==
  /\ rpc = [r \in Runs |-> "idle"]
  /\ rModel = [r \in Runs |-> "none"]
  /\ rLoopI = [r \in Runs |-> 0]
  /\ rLeft \in [Runs -> 1..MaxRunCalls]
  /\ rResult = [r \in Runs |-> NoResult]
  /\ rOwnIndex = [r \in Runs |-> 1]

\* part_005:299, run r calls translateContent for its next item
RunInvoke(r) ==
  /\ rpc[r] \in {"idle", "done"}
  /\ rLeft[r] > 0
  /\ rLeft' = [rLeft EXCEPT ![r] = @ - 1]
  /\ rModel' = [rModel EXCEPT ![r] = MODEL_PRIORITY_LIST[currentModelIndex]]
  /\ rpc' = [rpc EXCEPT ![r] = "first"]
  /\ rLoopI' = [rLoopI EXCEPT ![r] = 0]
  /\ rResult' = [rResult EXCEPT ![r] = NoResult]
  /\ UNCHANGED <<currentModelIndex, rOwnIndex>>
  /\ UNCHANGED notRuns

\* part_005:299-319, the call of run r to the model that was current returns
RunFirstReturns(r, resp) ==
  /\ rpc[r] = "first"
  /\ IF IsQuota429(resp) /\ FirstFallbackIndex(currentModelIndex) <= Len(MODEL_PRIORITY_LIST)
       THEN /\ rLoopI' = [rLoopI EXCEPT ![r] = FirstFallbackIndex(currentModelIndex)]
            /\ rModel' = [rModel EXCEPT
                            ![r] = MODEL_PRIORITY_LIST[FirstFallbackIndex(currentModelIndex)]]
            /\ rpc' = [rpc EXCEPT ![r] = "loop"]
            /\ rResult' = rResult
       ELSE /\ rResult' = [rResult EXCEPT ![r] = PrioFinal(resp, rModel[r])]
            /\ rpc' = [rpc EXCEPT ![r] = "done"]
            /\ UNCHANGED <<rLoopI, rModel>>
  /\ UNCHANGED <<currentModelIndex, rLeft, rOwnIndex>>
  /\ UNCHANGED notRuns

\* part_005:306-318, the call of run r to MODEL_PRIORITY_LIST[i] returns
RunLoopReturns(r, resp) ==
  /\ rpc[r] = "loop"
  /\ IF resp.ok
       THEN /\ currentModelIndex' = StickyIndex(currentModelIndex, rLoopI[r])
            /\ rOwnIndex' = [rOwnIndex EXCEPT ![r] = rLoopI[r]]
            /\ rResult' = [rResult EXCEPT ![r] = Translated(rModel[r])]
            /\ rpc' = [rpc EXCEPT ![r] = "done"]
            /\ UNCHANGED <<rLoopI, rModel>>
       ELSE IF resp.code = 429 /\ rLoopI[r] + 1 <= Len(MODEL_PRIORITY_LIST)
         THEN /\ rLoopI' = [rLoopI EXCEPT ![r] = @ + 1]
              /\ rModel' = [rModel EXCEPT ![r] = MODEL_PRIORITY_LIST[rLoopI[r] + 1]]
              /\ UNCHANGED <<currentModelIndex, rOwnIndex, rResult, rpc>>
         ELSE /\ rResult' = [rResult EXCEPT ![r] = PrioFinal(resp, rModel[r])]
              /\ rpc' = [rpc EXCEPT ![r] = "done"]
              /\ UNCHANGED <<currentModelIndex, rOwnIndex, rLoopI, rModel>>
  /\ UNCHANGED rLeft
  /\ UNCHANGED notRuns

RunsNext ==
  \/ \E r \in Runs : RunInvoke(r)
  \/ \E r \in Runs, resp \in Resps : RunFirstReturns(r, resp)
  \/ \E r \in Runs, resp \in Resps : RunLoopReturns(r, resp)

\* C14: the sticky backend index belongs to one batch run: with two batch runs
\* interleaved in one process, the first backend call of every translateContent
\* invocation of a run goes to the model that run's own fallback successes have
\* led to, whatever quota failures the other run has met.
C14_StickyIndexPerRun ==
  \A r \in Runs :
    rpc[r] = "first" => rModel[r] = MODEL_PRIORITY_LIST[rOwnIndex[r]]

\* ------------------------------------ the chunker of the last-resort stage
\* A text is a sequence of characters, a character a string: "a" is a letter,
\* " " is whitespace, the other names stand for the punctuation marks.
\* ai_query.js:183, const reSentence = /[.!?！？。]+/g
reSentence == {".", "!", "?", "U+FF01", "U+FF1F", "U+3002"}

\* the characters the texts are drawn from: a letter, whitespace, a Western and a
\* CJK terminator of reSentence, and the fullwidth semicolon U+FF1B
Alphabet == {"a", " ", ".", "U+3002", "U+FF1B"}

\* two letters, U+3002, two letters, U+FF01
ExampleText == <<"ni", "hao", "U+3002", "shi", "jie", "U+FF01">>

Texts == UNION {[1..n -> Alphabet] : n \in 0..MaxTextLen} \cup {ExampleText}

\* ai_query.js:184, content.split(reSentence): the pieces between the maximal
\* runs of characters of reSentence; the runs themselves are not kept
RECURSIVE SplitFrom(_, _, _, _)
SplitFrom(text, i, piece, pieces) ==
  IF i > Len(text) THEN Append(pieces, piece)
  ELSE IF text[i] \in reSentence
    THEN IF i > 1 /\ text[i - 1] \in reSentence
           THEN SplitFrom(text, i + 1, piece, pieces)
           ELSE SplitFrom(text, i + 1, <<>>, Append(pieces, piece))
    ELSE SplitFrom(text, i + 1, Append(piece, text[i]), pieces)

Split(text) == SplitFrom(text, 1, <<>>, <<>>)

\* String.prototype.trim
RECURSIVE TrimStart(_)
TrimStart(str) == IF str # <<>> /\ Head(str) = " " THEN TrimStart(Tail(str)) ELSE str

RECURSIVE TrimEnd(_)
TrimEnd(str) ==
  IF str # <<>> /\ str[Len(str)] = " " THEN TrimEnd(SubSeq(str, 1, Len(str) - 1)) ELSE str

Trim(str) == TrimEnd(TrimStart(str))

\* ai_query.js:187-196, the loop over the sentences and the final push
RECURSIVE Pack(_, _, _, _, _)
Pack(sentences, k, buf, out, size) ==
  IF k > Len(sentences)
    THEN IF Trim(buf) # <<>> THEN Append(out, Trim(buf)) ELSE out
    ELSE LET next == buf \o sentences[k] IN
         IF Len(next) > size /\ buf # <<>>
           THEN Pack(sentences, k + 1, sentences[k], Append(out, Trim(buf)), size)
           ELSE Pack(sentences, k + 1, next, out, size)

\* ai_query.js:182-196
Chunker(text, size) == Pack(Split(text), 1, <<>>, <<>>, size)

ChunkOff ==
  /\ content = <<>>
  /\ chunkSize = 0
  /\ chunks = <<>>
  /\ cpc = "off"

\* the code fixes CHUNK_SIZE to 1000 (ai_query.js:182); the chunker is run here
\* for every size up to MaxChunkSize on every text of up to MaxTextLen characters
ChunkInit ==
  /\ content \in Texts
  /\ chunkSize \in 1..MaxChunkSize
  /\ chunks = <<>>
  /\ cpc = "start"

\* ai_query.js:182-196, the chunker runs
Chunkify ==
  /\ cpc = "start"
  /\ chunks' = Chunker(content, chunkSize)
  /\ cpc' = "done"
  /\ UNCHANGED <<content, chunkSize>>
  /\ UNCHANGED notChunk

ChunkNext == Chunkify

\* ------------------------------------------------------- the chunker: claims
RECURSIVE Concat(_)
Concat(seqs) == IF seqs = <<>> THEN <<>> ELSE Head(seqs) \o Concat(Tail(seqs))

\* the terminators the claims name: Western . ! ? and CJK U+3002 U+FF01 U+FF1F U+FF1B
ClaimedTerminators == {".", "!", "?", "U+3002", "U+FF01", "U+FF1F", "U+FF1B"}

\* the sentences of a text: each ends right after a terminator, which it keeps
RECURSIVE SentencesFrom(_, _, _, _)
SentencesFrom(text, i, cur, acc) ==
  IF i > Len(text) THEN (IF cur = <<>> THEN acc ELSE Append(acc, cur))
  ELSE IF text[i] \in ClaimedTerminators
    THEN SentencesFrom(text, i + 1, <<>>, Append(acc, Append(cur, text[i])))
    ELSE SentencesFrom(text, i + 1, Append(cur, text[i]), acc)

Sentences(text) == SentencesFrom(text, 1, <<>>, <<>>)

\* greedy packing: flush exactly when the next sentence would make the buffer
\* exceed size and the buffer is not empty
RECURSIVE PackWhole(_, _, _, _, _)
PackWhole(sentences, k, buf, out, size) ==
  IF k > Len(sentences)
    THEN IF buf # <<>> THEN Append(out, buf) ELSE out
    ELSE IF Len(buf \o sentences[k]) > size /\ buf # <<>>
           THEN PackWhole(sentences, k + 1, sentences[k], Append(out, buf), size)
           ELSE PackWhole(sentences, k + 1, buf \o sentences[k], out, size)

\* C15: chunking is lossless: for every text and every maxSize >= 1 the chunks,
\* concatenated in order with nothing between them, are exactly the text.
C15_ChunkingLossless ==
  cpc = "done" => Concat(chunks) = content

\* C16: every chunk has length <= maxSize unless it is exactly one sentence that
\* is itself longer than maxSize; and every such sentence is one of the chunks,
\* whole (up to the whitespace trimmed at its ends).
C16_OnlyWholeSentencesOversized ==
  cpc = "done" =>
    LET sentences == Sentences(content)
        oversized == {k \in 1..Len(sentences) : Len(Trim(sentences[k])) > chunkSize}
    IN /\ \A c \in 1..Len(chunks) :
            \/ Len(chunks[c]) <= chunkSize
            \/ \E k \in oversized : chunks[c] = Trim(sentences[k])
       /\ \A k \in oversized : \E c \in 1..Len(chunks) : chunks[c] = Trim(sentences[k])

\* C17: the chunks are the sentences of the text (each ending right after its
\* terminator, which it keeps), packed greedily: the buffer is flushed exactly
\* when the next sentence would make it exceed maxSize and it is not empty; the
\* text of two letters, U+3002, two letters, U+FF01 with maxSize 5 gives the two
\* chunks (two letters, U+3002) and (two letters, U+FF01), in that order.
C17_SplitAfterTerminators ==
  cpc = "done" =>
    /\ chunks = PackWhole(Sentences(content), 1, <<>>, <<>>, chunkSize)
    /\ (content = ExampleText /\ chunkSize = 5) =>
         chunks = << <<"ni", "hao", "U+3002">>, <<"shi", "jie", "U+FF01">> >>

\* C18: every chunk the chunker emits is a non-empty string, whatever the text
\* (empty, whitespace only, whitespace between terminators).
C18_NoEmptyChunk ==
  cpc = "done" => \A c \in 1..Len(chunks) : chunks[c] # <<>>

\* ------------------------------------------- processJson (translate.js)
\* translate.js:199
HalvedByOne(size) == IF size - 1 >= 1 THEN size - 1 ELSE 1

Halved(size) == IF size \div 2 >= 1 THEN size \div 2 ELSE 1

\* chapters.slice(i, i + currentBatchSize).length
BatchLen(i, size, n) == Min(i + size, n) - i

\* translate.js:188, translatedChapters.push(...translated) for an answer of k
\* entries to the batch at i: entry j stands for the j-th chapter of the batch, an
\* entry beyond the batch for none
Pushed(tc, i, len, k) ==
  tc \o [j \in 1..k |-> IF j <= len THEN i + j ELSE 0]

BatchOff ==
  /\ nChapters = 0
  /\ chaptersPerRequest = 0
  /\ currentBatchSize = 0
  /\ chapterI = 0
  /\ translatedChapters = <<>>
  /\ bpc = "off"
  /\ sizeOneFailures = {}
  /\ failuresInARow = 0
  /\ attemptsMade = 0

\* translate.js:171, processJson has sent the request for the chapter list;
\* nChapters is the length of the list that is on its way
BatchInit ==
  /\ nChapters \in 0..MaxChapters
  /\ chaptersPerRequest \in 1..MaxPerRequest
  /\ currentBatchSize = 0
  /\ chapterI = 0
  /\ translatedChapters = <<>>
  /\ bpc = "fetch"
  /\ sizeOneFailures = {}
  /\ failuresInARow = 0
  /\ attemptsMade = 0

\* translate.js:182-187 and 207-208: the while test; either the next batch is
\* sent to translateChapters or the loop is over and the output file is written
WhileTest(i) ==
  bpc' = IF i < nChapters THEN "call" ELSE "saved"

\* translate.js:171-180, the chapter list arrives (or the request fails, or the
\* answer is not an array)
FetchReturns(isArray) ==
  /\ bpc = "fetch"
  /\ IF isArray
       THEN /\ currentBatchSize' = chaptersPerRequest
            /\ WhileTest(0)
       ELSE /\ bpc' = "exited"
            /\ currentBatchSize' = currentBatchSize
  /\ UNCHANGED <<nChapters, chaptersPerRequest, chapterI, translatedChapters, sizeOneFailures,
                 failuresInARow, attemptsMade>>
  /\ UNCHANGED notBatch

\* translate.js:187-195, translateChapters returns an array of k entries: as many
\* as the batch has chapters, fewer, or one more
ChaptersReturn(k) ==
  /\ bpc = "call"
  /\ k <= BatchLen(chapterI, currentBatchSize, nChapters) + 1
  /\ translatedChapters' =
       Pushed(translatedChapters, chapterI, BatchLen(chapterI, currentBatchSize, nChapters), k)
  /\ chapterI' = chapterI + currentBatchSize
  /\ currentBatchSize' = chaptersPerRequest
  /\ bpc' = "sleep"
  /\ failuresInARow' = 0
  /\ attemptsMade' = attemptsMade + 1
  /\ UNCHANGED <<nChapters, chaptersPerRequest, sizeOneFailures>>
  /\ UNCHANGED notBatch

\* translate.js:195, the pause of one second is over
SleepEnds ==
  /\ bpc = "sleep"
  /\ WhileTest(chapterI)
  /\ UNCHANGED <<nChapters, chaptersPerRequest, currentBatchSize, chapterI, translatedChapters,
                 sizeOneFailures, failuresInARow, attemptsMade>>
  /\ UNCHANGED notBatch

\* translate.js:196-204 and 211-214, translateChapters throws (API error, no
\* JSON in the answer) or the answer cannot be spread
ChaptersThrow ==
  /\ bpc = "call"
  /\ IF currentBatchSize > 1
       THEN /\ currentBatchSize' = Halved(currentBatchSize)
            /\ WhileTest(chapterI)
            /\ sizeOneFailures' = sizeOneFailures
       ELSE /\ bpc' = "exited"
            /\ currentBatchSize' = currentBatchSize
            /\ sizeOneFailures' = sizeOneFailures \cup {chapterI}
  /\ failuresInARow' = failuresInARow + 1
  /\ attemptsMade' = attemptsMade + 1
  /\ UNCHANGED <<nChapters, chaptersPerRequest, chapterI, translatedChapters>>
  /\ UNCHANGED notBatch

BatchNext ==
  \/ \E isArray \in BOOLEAN : FetchReturns(isArray)
  \/ \E k \in 0..(MaxPerRequest + 1) : ChaptersReturn(k)
  \/ SleepEnds
  \/ ChaptersThrow

\* C20: when a sub-batch of size 1 fails in the adaptive batch loop, the run is
\* not aborted: it goes on with the remaining items, and once it is over the
\* item of the failed sub-batch has its entry in the result.
C20_SizeOneFailureContinues ==
  \A i \in sizeOneFailures :
    /\ bpc # "exited"
    /\ bpc = "saved" => \E j \in 1..Len(translatedChapters) : translatedChapters[j] = i + 1

\* the loop of processJson has been entered
InBatchLoop == bpc \in {"call", "sleep", "saved"} \/ (bpc = "exited" /\ sizeOneFailures # {})

\* C28: in the adaptive batch loop 1 <= currentBatchSize <= chaptersPerRequest
\* always holds; a failed batch of size > 1 sets currentBatchSize to
\* max(1, floor(currentBatchSize / 2)) and leaves i and the collected results as
\* they are; a successful batch advances i by the size used and resets
\* currentBatchSize to chaptersPerRequest.
C28_BatchSizeInvariant ==
  /\ [](InBatchLoop => (1 <= currentBatchSize /\ currentBatchSize <= chaptersPerRequest))
  /\ [][ /\ (bpc = "call" /\ bpc' = "call") =>
              /\ currentBatchSize > 1
              /\ currentBatchSize' = (IF currentBatchSize \div 2 > 1
                                        THEN currentBatchSize \div 2 ELSE 1)
              /\ chapterI' = chapterI
              /\ translatedChapters' = translatedChapters
         /\ (bpc = "call" /\ bpc' = "sleep") =>
              /\ chapterI' = chapterI + currentBatchSize
              /\ currentBatchSize' = chaptersPerRequest ]_vars

\* after a first batch went through, two failures in a row have brought the batch
\* size from 4 down to 1
C28_Witness ==
  /\ bpc = "call" /\ chaptersPerRequest = 4 /\ currentBatchSize = 1
  /\ chapterI > 0 /\ chapterI < nChapters

\* floor(log2(n)) for n >= 1
RECURSIVE Log2Floor(_)
Log2Floor(n) == IF n < 2 THEN 0 ELSE 1 + Log2Floor(n \div 2)

\* C29: the adaptive batch loop terminates: between two advances of the start
\* index there are at most floor(log2(chaptersPerRequest)) + 1 failed attempts,
\* the loop makes at most chapters.length times that many attempts in all, and it
\* ends either with every chapter processed (the output is written) or with an
\* abort right after a failure at batch size 1.
C29_BatchLoopTerminates ==
  /\ failuresInARow <= Log2Floor(chaptersPerRequest) + 1
  /\ attemptsMade <= nChapters * (Log2Floor(chaptersPerRequest) + 1)
  /\ bpc = "call" => (chapterI < nChapters /\ failuresInARow <= Log2Floor(chaptersPerRequest))
  /\ bpc = "saved" => chapterI >= nChapters
  /\ (bpc = "exited" /\ attemptsMade > 0) =>
       /\ currentBatchSize = 1
       /\ chapterI \in sizeOneFailures
       /\ failuresInARow = Log2Floor(chaptersPerRequest) + 1

\* with four chapters per request, the run was aborted at its second batch after
\* three failed attempts in a row (sizes 4, 2 and 1)
C29_Witness ==
  /\ bpc = "exited" /\ chaptersPerRequest = 4
  /\ failuresInARow = 3
  /\ chapterI > 0

\* ------------------------------- the last-resort loop, request by request
\* the texts the loop is run on: letters, whitespace and a terminator
LastTexts == UNION {[1..n -> {"a", " ", "."}] : n \in 0..MaxTextLen}

\* ai_query.js:215, data[0].map(seg => seg[0]).join(''): the translation of the
\* chunk that was sent
TranslationOf(chunk) == [translationOf |-> chunk]

\* ai_query.js:215, translated += ...
AccumulateInFront(translated, piece) == <<piece>> \o translated

Accumulate(translated, piece) == Append(translated, piece)

\* ai_query.js:198, let translated = '' at the start of every attempt
KeptFromBefore(translated) == translated

EmptyTranslated(translated) == <<>>

\* the content of a translation: the pieces joined in the order they were appended
Joined(pieces) == [kind |-> "translation", pieces |-> pieces]

NoLastResult == [returned |-> FALSE, translated |-> FALSE, content |-> [kind |-> "none"],
                 model |-> "none"]

LastOff ==
  /\ lrContent = <<>>
  /\ lrSize = 0
  /\ lrChunks = <<>>
  /\ lrAttempt = 0
  /\ lrSent = <<>>
  /\ lrAnswered = 0
  /\ lrTranslated = <<>>
  /\ lrFrom = <<>>
  /\ lrpc = "off"
  /\ lrResult = NoLastResult

\* ai_query.js:174-178, the models have failed and the loop is about to be entered
LastInit ==
  /\ lrContent \in LastTexts
  /\ lrSize \in 1..MaxChunkSize
  /\ lrChunks = <<>>
  /\ lrAttempt = 0
  /\ lrSent = <<>>
  /\ lrAnswered = 0
  /\ lrTranslated = <<>>
  /\ lrFrom = <<>>
  /\ lrpc = "enter"
  /\ lrResult = NoLastResult

\* ai_query.js:180-214 and 218, an attempt starts (the first one, or the next one
\* once the wait is over): the text is chunked and the request for the first chunk
\* is sent; with no chunk at all the attempt is over at once
AttemptStarts ==
  /\ lrpc \in {"enter", "backoff"}
  /\ lrChunks' = Chunker(lrContent, lrSize)
  /\ lrTranslated' = EmptyTranslated(lrTranslated)
  /\ lrFrom' = EmptyTranslated(lrFrom)
  /\ lrAnswered' = 0
  /\ IF Chunker(lrContent, lrSize) = <<>>
       THEN /\ lrSent' = <<>>
            /\ lrpc' = "done"
            /\ lrResult' = [returned |-> TRUE, translated |-> TRUE, content |-> Joined(<<>>),
                            model |-> GoogleTranslate]
       ELSE /\ lrSent' = <<Chunker(lrContent, lrSize)[1]>>
            /\ lrpc' = "request"
            /\ lrResult' = lrResult
  /\ UNCHANGED <<lrContent, lrSize, lrAttempt>>
  /\ UNCHANGED notLast

\* ai_query.js:211-218, the request for a chunk is answered with a translation:
\* it is appended, and the next chunk is sent or the result returned
ChunkAnswered ==
  /\ lrpc = "request"
  /\ lrAnswered' = lrAnswered + 1
  /\ lrTranslated' = Accumulate(lrTranslated, TranslationOf(lrChunks[lrAnswered + 1]))
  /\ lrFrom' = Append(lrFrom, lrAttempt)
  /\ IF lrAnswered + 1 < Len(lrChunks)
       THEN /\ lrSent' = Append(lrSent, lrChunks[lrAnswered + 2])
            /\ UNCHANGED <<lrpc, lrResult>>
       ELSE /\ lrpc' = "done"
            /\ lrSent' = lrSent
            /\ lrResult' = [returned |-> TRUE, translated |-> TRUE,
                            content |-> Joined(Accumulate(lrTranslated,
                                                 TranslationOf(lrChunks[lrAnswered + 1]))),
                            model |-> GoogleTranslate]
  /\ UNCHANGED <<lrContent, lrSize, lrChunks, lrAttempt>>
  /\ UNCHANGED notLast

\* ai_query.js:219-232, the request for a chunk fails (or its answer has not the
\* expected shape): the attempt is over; a wait follows, or the loop ends
ChunkFails ==
  /\ lrpc = "request"
  /\ lrAttempt' = lrAttempt + 1
  /\ IF lrAttempt + 1 < MAX_RETRIES
       THEN /\ lrpc' = "backoff"
            /\ lrResult' = lrResult
       ELSE /\ lrpc' = "done"
            /\ lrResult' = [returned |-> TRUE, translated |-> FALSE,
                            content |-> [kind |-> "original"], model |-> GoogleTranslate]
  /\ UNCHANGED <<lrContent, lrSize, lrChunks, lrSent, lrAnswered, lrTranslated, lrFrom>>
  /\ UNCHANGED notLast

LastNext ==
  \/ AttemptStarts
  \/ ChunkAnswered
  \/ ChunkFails

\* C24: in one last-resort attempt the text is chunked first, the endpoint is
\* called once per chunk in chunk order, each request being sent only when the
\* one before has been answered, and the content returned on success is the
\* per-chunk translations joined in that same order.
C24_ChunksInOrder ==
  lrpc \in {"request", "backoff", "done"} =>
    /\ lrChunks = Chunker(lrContent, lrSize)
    /\ Len(lrSent) <= Len(lrChunks)
    /\ \A k \in 1..Len(lrSent) : lrSent[k] = lrChunks[k]
    /\ Len(lrSent) - lrAnswered \in {0, 1}
    /\ lrpc = "request" => Len(lrSent) = lrAnswered + 1
    /\ (lrpc = "done" /\ lrResult.translated) =>
         /\ Len(lrSent) = Len(lrChunks)
         /\ lrResult.content =
              Joined([k \in 1..Len(lrChunks) |-> TranslationOf(lrChunks[k])])

\* a text of three chunks was translated in the second attempt
C24_Witness ==
  /\ lrpc = "done" /\ lrResult.translated
  /\ lrAttempt = 1
  /\ Len(lrChunks) = 3
  /\ lrChunks[1] # lrChunks[2]

\* C31: the last-resort stage is all-or-nothing: a failed chunk request ends the
\* attempt, the next attempt starts with nothing translated and with the first
\* chunk, and the content returned is either the translations of all chunks, each
\* obtained in the one attempt that succeeded, or the original content.
C31_AllOrNothing ==
  /\ [](lrpc \in {"request", "backoff", "done"} =>
          /\ Len(lrFrom) = Len(lrTranslated)
          /\ (lrpc = "request" \/ lrResult.translated) =>
               \A k \in 1..Len(lrFrom) : lrFrom[k] = lrAttempt
          /\ lrpc = "done" =>
               IF lrResult.translated
                 THEN /\ Len(lrTranslated) = Len(lrChunks)
                      /\ lrResult.content = Joined(lrTranslated)
                      /\ \A k \in 1..Len(lrChunks) :
                           lrTranslated[k] = TranslationOf(lrChunks[k])
                 ELSE /\ lrResult.content = [kind |-> "original"]
                      /\ lrAttempt = MAX_RETRIES)
  /\ [][(lrpc = "backoff" /\ lrpc' # "backoff") =>
          /\ lrTranslated' = <<>>
          /\ lrAnswered' = 0
          /\ lrSent' = IF lrChunks' = <<>> THEN <<>> ELSE <<lrChunks'[1]>>
       ]_vars

\* the first attempt failed; the second attempt translated all three chunks, and
\* every piece of the returned content was obtained in it
C31_Witness ==
  /\ lrpc = "done" /\ lrResult.translated
  /\ lrAttempt = 1
  /\ Len(lrChunks) = 3
  /\ lrFrom = <<1, 1, 1>>

\* --------------------------------------------------- translateWithModel
\* "flat": part_005:61-92, which returns {translated, content, model};
\* "result": part_005:264-290, which returns {success, content | error, model}
UnitVariants == {"flat", "result"}

\* TITLE_MODEL, CONTENT_MODEL (part_005:10-11); the models of MODEL_PRIORITY_LIST
UnitModels(variant) ==
  IF variant = "flat" THEN {"gemini-2.5-pro", "gemini-2.5-flash"}
  ELSE {MODEL_PRIORITY_LIST[i] : i \in 1..Len(MODEL_PRIORITY_LIST)}

NoUnitOut ==
  [thrown |-> FALSE, flag |-> "none", value |-> FALSE, content |-> [kind |-> "none", by |-> "none"],
   model |-> "none", error |-> "none"]

\* part_005:76-81 and 275-280
UnitSuccess(variant, model) ==
  [thrown |-> FALSE, flag |-> IF variant = "flat" THEN "translated" ELSE "success",
   value |-> TRUE, content |-> TranslationBy(model), model |-> model, error |-> "none"]

\* the error leaves translateWithModel: the invocation rejects
UnitFailureThrown(variant, model, r) == [NoUnitOut EXCEPT !.thrown = TRUE]

\* part_005:84-90: { translated: false, content: content, model: FALLBACK_MODEL }
\* part_005:283-288: { success: false, error: error, model: modelName }
UnitFailure(variant, model, r) ==
  IF variant = "flat"
    THEN [thrown |-> FALSE, flag |-> "translated", value |-> FALSE, content |-> Original,
          model |-> GoogleTranslate, error |-> "none"]
    ELSE [thrown |-> FALSE, flag |-> "success", value |-> FALSE,
          content |-> [kind |-> "none", by |-> "none"], model |-> model, error |-> r]

UnitOff ==
  /\ twVariant = "flat"
  /\ twModel = "none"
  /\ twCalls = 0
  /\ twResp = OkResp
  /\ twpc = "off"
  /\ twLeft = 0
  /\ twOut = NoUnitOut

UnitInit ==
  /\ twVariant \in UnitVariants
  /\ twModel = "none"
  /\ twCalls = 0
  /\ twResp = OkResp
  /\ twpc = "idle"
  /\ twLeft \in 1..MaxInvocations
  /\ twOut = NoUnitOut

\* part_005:61-74 and 264-273, translateWithModel is called: generateContent is
\* called
UnitCalled(model) ==
  /\ twpc \in {"idle", "returned"}
  /\ twLeft > 0
  /\ model \in UnitModels(twVariant)
  /\ twLeft' = twLeft - 1
  /\ twModel' = model
  /\ twCalls' = 1
  /\ twpc' = "call"
  /\ twOut' = NoUnitOut
  /\ UNCHANGED <<twVariant, twResp>>
  /\ UNCHANGED notUnit

\* part_005:76-91 and 275-289, generateContent returns or throws; an answer
\* without text is thrown as an error inside the try block
UnitAnswered(r) ==
  /\ twpc = "call"
  /\ twResp' = r
  /\ twOut' = IF r.ok THEN UnitSuccess(twVariant, twModel) ELSE UnitFailure(twVariant, twModel, r)
  /\ twpc' = "returned"
  /\ UNCHANGED <<twVariant, twModel, twCalls, twLeft>>
  /\ UNCHANGED notUnit

UnitNext ==
  \/ \E model \in UnitModels("flat") \cup UnitModels("result") : UnitCalled(model)
  \/ \E r \in Resps : UnitAnswered(r)

\* C26 as stated: translateWithModel makes exactly one backend call per
\* invocation and reports every failure, an empty response included, by
\* returning success = false with the error and the model name.
C26_OneCallFailureAsResult ==
  twpc = "returned" =>
    /\ twCalls = 1
    /\ ~twOut.thrown
    /\ ~twResp.ok =>
         /\ twOut.flag = "success" /\ ~twOut.value
         /\ twOut.error = twResp
         /\ twOut.model = twModel

\* C26 amended: translateWithModel makes exactly one backend call per invocation
\* and never throws; a failure, an empty response included, is returned as
\* {success: false, error, model: modelName} by part_005:264-290 and as
\* {translated: false, content: the original, model: FALLBACK_MODEL}, without
\* the error, by part_005:61-92.
C26_OneCallFailureReturned ==
  twpc = "returned" =>
    /\ twCalls = 1
    /\ ~twOut.thrown
    /\ ~twResp.ok =>
         IF twVariant = "result"
           THEN /\ twOut.flag = "success" /\ ~twOut.value
                /\ twOut.error = twResp
                /\ twOut.model = twModel
           ELSE /\ twOut.flag = "translated" /\ ~twOut.value
                /\ twOut.content = Original
                /\ twOut.model = GoogleTranslate
                /\ twOut.error = "none"

\* an empty response was returned as a failure by part_005:264-290
C26_Witness ==
  /\ twVariant = "result" /\ twpc = "returned"
  /\ twResp = EmptyResponse
  /\ ~twOut.value /\ twOut.model = MODEL_PRIORITY_LIST[2]

\* --------------------------------------------- main: range and batch loop
\* "ai_query": scripts/ai_query.js:264-335, which slices jsonData;
\* "part_005": part_005:351-424 and "part_004": part_004:104-140, which loop
\* over the indices start - 1 .. end - 1
MainVariants == {"ai_query", "part_005", "part_004"}

\* the characters range strings are made of: digits, the separator and a letter
RangeDigits == {"0", "1", "2", "9"}

RangeChars == RangeDigits \cup {"-", "a"}

\* part_004:143-147: the script exits when no range is given, so rangeStr is not empty
RangeStrings == UNION {[1..n -> RangeChars] : n \in 1..MaxRangeLen}

DigitValue(c) == CASE c = "0" -> 0 [] c = "1" -> 1 [] c = "2" -> 2 [] c = "9" -> 9

\* NaN, as a value that parseInt returns for no string without a sign
NaN == -1

RECURSIVE Decimal(_)
Decimal(ds) ==
  IF ds = <<>> THEN 0 ELSE 10 * Decimal(SubSeq(ds, 1, Len(ds) - 1)) + DigitValue(ds[Len(ds)])

\* parseInt(str) for a string of RangeChars without "-": the number written by
\* the longest prefix of digits, NaN when the string does not begin with a digit
ParseInt(str) ==
  LET n == CHOOSE k \in 0..Len(str) :
             /\ \A j \in 1..k : str[j] \in RangeDigits
             /\ (k = Len(str) \/ str[k + 1] \notin RangeDigits)
  IN  IF n = 0 THEN NaN ELSE Decimal(SubSeq(str, 1, n))

\* str.split('-')
RECURSIVE SplitOnDash(_)
SplitOnDash(str) ==
  IF \A j \in 1..Len(str) : str[j] # "-"
    THEN <<str>>
    ELSE LET k == CHOOSE j \in 1..Len(str) :
                    str[j] = "-" /\ \A h \in 1..(j - 1) : str[h] # "-"
         IN  <<SubSeq(str, 1, k - 1)>> \o SplitOnDash(SubSeq(str, k + 1, Len(str)))

\* scripts/ai_query.js:48-60 and part_004:46-59
parseRange(str, maxItems) ==
  LET parts == SplitOnDash(str)
      startStr == parts[1]
      start0 == ParseInt(startStr)
      end0 == IF Len(parts) >= 2 /\ parts[2] # <<>> THEN ParseInt(parts[2]) ELSE start0
      start1 == IF start0 = NaN THEN 1 ELSE start0
      end1 == IF end0 = NaN THEN maxItems ELSE end0
      start2 == IF start1 < 1 THEN 1 ELSE start1
      end2 == IF end1 > maxItems THEN maxItems ELSE end1
  IN  IF start2 > end2 THEN [start |-> end2, end |-> start2]
                       ELSE [start |-> start2, end |-> end2]

\* jsonData.slice(begin, end), as the 0-based indices it picks
Slice(len, begin, endx) ==
  LET from == IF begin < 0 THEN (IF len + begin < 0 THEN 0 ELSE len + begin)
                           ELSE (IF begin > len THEN len ELSE begin)
      to == IF endx < 0 THEN (IF len + endx < 0 THEN 0 ELSE len + endx)
                        ELSE (IF endx > len THEN len ELSE endx)
  IN  [j \in 1..(IF to > from THEN to - from ELSE 0) |-> from + j - 1]

\* what translateContent (part_005:297-349) and translateItem (part_004:61-102)
\* return for an item, as far as main looks at it
ItemResults(variant) ==
  IF variant = "part_005"
    THEN {[translated |-> TRUE, error |-> "none"],
          [translated |-> FALSE, error |-> "prohibited content"],
          [translated |-> FALSE, error |-> "other"]}
    ELSE {[translated |-> TRUE, error |-> "none"], [translated |-> FALSE, error |-> "none"]}

\* part_005:396-397 and part_004:129, if (translated) successCount++
CountedAlways(count, flag) == count + 1

Counted(count, flag) == IF flag THEN count + 1 ELSE count

\* part_004:133, the number of failed items the summary prints
FailedReported ==
  IF mnVariant = "part_004" THEN rangeEnd - rangeStart + 1 - successCount ELSE failCount

MainOff ==
  /\ mnVariant = "none"
  /\ rangeStr = <<>>
  /\ jsonLen = 0
  /\ rangeStart = 0
  /\ rangeEnd = 0
  /\ itemI = 0
  /\ itemsInRange = <<>>
  /\ translatedItems = <<>>
  /\ successCount = 0
  /\ failCount = 0
  /\ prohibitedCount = 0
  /\ indicesRead = {}
  /\ mnpc = "off"

\* main has fetched jsonData, an array
MainInit ==
  /\ mnVariant \in MainVariants
  /\ rangeStr \in RangeStrings
  /\ jsonLen \in 0..MaxList
  /\ rangeStart = 0
  /\ rangeEnd = 0
  /\ itemI = 0
  /\ itemsInRange = <<>>
  /\ translatedItems = <<>>
  /\ successCount = 0
  /\ failCount = 0
  /\ prohibitedCount = 0
  /\ indicesRead = {}
  /\ mnpc = "fetched"

\* part_004:109-113, the range is parsed and the results directory asked for
RangeParsed ==
  /\ mnpc = "fetched"
  /\ rangeStart' = parseRange(rangeStr, jsonLen).start
  /\ rangeEnd' = parseRange(rangeStr, jsonLen).end
  /\ mnpc' = "mkdir"
  /\ UNCHANGED <<mnVariant, rangeStr, jsonLen, itemI, itemsInRange, translatedItems,
                 successCount, failCount, prohibitedCount, indicesRead>>
  /\ UNCHANGED notMain

\* part_004:123-126 and 132-133, the loop test at index i and what follows it:
\* jsonData[i] is read and the item's title logged, which throws for an index
\* outside the array (main's catch then exits); past end the output is written
AtIndex(i) ==
  IF i < rangeEnd
    THEN /\ indicesRead' = indicesRead \cup {i}
         /\ mnpc' = IF i \in 0..(jsonLen - 1) THEN "call" ELSE "exited"
    ELSE /\ indicesRead' = indicesRead
         /\ mnpc' = "done"

\* scripts/ai_query.js:283-284 and part_004:116-126: the directory is there; the
\* items are sliced out, or the loop is entered
LoopEntered ==
  /\ mnpc = "mkdir"
  /\ IF mnVariant = "ai_query"
       THEN /\ itemsInRange' = Slice(jsonLen, rangeStart - 1, rangeEnd)
            /\ mnpc' = "sliced"
            /\ UNCHANGED <<itemI, indicesRead>>
       ELSE /\ itemI' = rangeStart - 1
            /\ AtIndex(rangeStart - 1)
            /\ UNCHANGED itemsInRange
  /\ UNCHANGED <<mnVariant, rangeStr, jsonLen, rangeStart, rangeEnd, translatedItems,
                 successCount, failCount, prohibitedCount>>
  /\ UNCHANGED notMain

\* part_005:382-405 and part_004:127-130, the call for item i returns res: it is
\* pushed and counted; part_004 goes on to the next index, part_005 waits 500 ms
ItemTranslated(res) ==
  /\ mnpc = "call"
  /\ res \in ItemResults(mnVariant)
  /\ translatedItems' = Append(translatedItems, [item |-> itemI, translated |-> res.translated])
  /\ successCount' = Counted(successCount, res.translated)
  /\ IF mnVariant = "part_005"
       THEN /\ failCount' = Counted(failCount, ~res.translated)
            /\ prohibitedCount' =
                 Counted(prohibitedCount, ~res.translated /\ res.error = "prohibited content")
            /\ mnpc' = "sleep"
            /\ UNCHANGED <<itemI, indicesRead>>
       ELSE /\ itemI' = itemI + 1
            /\ AtIndex(itemI + 1)
            /\ UNCHANGED <<failCount, prohibitedCount>>
  /\ UNCHANGED <<mnVariant, rangeStr, jsonLen, rangeStart, rangeEnd, itemsInRange>>
  /\ UNCHANGED notMain

\* part_005:405 and 378, the delay between two items is over
DelayEnds ==
  /\ mnpc = "sleep"
  /\ itemI' = itemI + 1
  /\ AtIndex(itemI + 1)
  /\ UNCHANGED <<mnVariant, rangeStr, jsonLen, rangeStart, rangeEnd, itemsInRange,
                 translatedItems, successCount, failCount, prohibitedCount>>
  /\ UNCHANGED notMain

AllItemResults == ItemResults("part_005") \cup ItemResults("part_004")

MainNext ==
  \/ RangeParsed
  \/ LoopEntered
  \/ \E res \in AllItemResults : ItemTranslated(res)
  \/ DelayEnds

\* C33: for a list of at least one item and every range string, parseRange
\* returns start and end with 1 <= start <= end <= maxItems, and every index the
\* batch loop reads is an index of the list.
C33_RangeWithinList ==
  (mnpc \notin {"off", "fetched"} /\ jsonLen >= 1) =>
    /\ 1 <= rangeStart
    /\ rangeStart <= rangeEnd
    /\ rangeEnd <= jsonLen
    /\ indicesRead \subseteq 0..(jsonLen - 1)

\* C32: in every batch variant, when the run completes the counters partition the
\* processed items: successCount + failCount is the number of items processed,
\* each item has one result and is counted once, and successCount is the number
\* of items whose result has translated = true.
C32_CountersPartition ==
  /\ parOut.returned =>
       /\ parOut.successCount + parOut.failCount = nItems
       /\ Len(parOut.translatedItems) = nItems
       /\ parOut.successCount = Cardinality({i \in Items : results[i].ok})
       /\ parOut.failCount = Cardinality({i \in Items : ~results[i].ok})
  /\ mnpc = "done" =>
       /\ successCount + FailedReported = Len(translatedItems)
       /\ Len(translatedItems) = rangeEnd - rangeStart + 1
       /\ \A k \in 1..Len(translatedItems) : translatedItems[k].item = rangeStart - 1 + k - 1
       /\ successCount =
            Cardinality({k \in 1..Len(translatedItems) : translatedItems[k].translated})
       /\ FailedReported =
            Cardinality({k \in 1..Len(translatedItems) : ~translatedItems[k].translated})
       /\ prohibitedCount <= failCount

\* part_004 has processed the three items of the list: two were translated and
\* one was not
C32_Witness ==
  /\ mnVariant = "part_004" /\ mnpc = "done"
  /\ Len(translatedItems) = 3
  /\ successCount = 2
  /\ FailedReported = 1

\* ------------------------------------------- the per-title fallback chain
\* scripts/ai_query.js:305-307: the slice failed as a batch, and
\* googleTranslateTitle is called for each of its titles at once
SliceTitles == 1..sliceLen

\* how the endpoint can answer (ai_query.js:113-118): segments with text,
\* segments whose text is empty, an answer without data[0], or a failed request
GoogleAnswers == {"text", "empty", "malformed", "error"}

\* how generateContent can answer (ai_query.js:85-97): a response with text,
\* one with an empty text, no response, or a rejection
SingleAnswers == {"text", "empty", "none", "error"}

NoTitle == [kind |-> "none", of |-> 0]

OriginalTitle(k) == [kind |-> "original", of |-> k]

\* ai_query.js:118, data[0].map(seg => seg[0]).join('')
GoogleTitle(k, r) == IF r = "text" THEN [kind |-> "google", of |-> k] ELSE [kind |-> "empty", of |-> k]

\* ai_query.js:94-101: the text of the response, or the title itself
SingleTitle(k, r) == IF r = "text" THEN [kind |-> "ai", of |-> k] ELSE OriginalTitle(k)

\* ai_query.js:317, translatedTitles[index] || item.title
FinalTitleAsIs(v, k) == v

FinalTitle(v, k) == IF v.kind \in {"empty", "none"} THEN OriginalTitle(k) ELSE v

Sent(to) == [to |-> to, resp |-> "pending"]

Answer(cs, r) == [cs EXCEPT ![Len(cs)].resp = r]

TitleOff ==
  /\ sliceLen = 0
  /\ gtpc = <<>>
  /\ gtCalls = <<>>
  /\ gtValue = <<>>
  /\ itemTitles = <<>>

\* ai_query.js:305-307 and 104-116: titles.map(t => googleTranslateTitle(t)) has
\* sent one request per title
TitleInit ==
  /\ sliceLen \in 1..MaxSliceLen
  /\ gtpc = [k \in 1..sliceLen |-> "google"]
  /\ gtCalls = [k \in 1..sliceLen |-> <<Sent("google")>>]
  /\ gtValue = [k \in 1..sliceLen |-> NoTitle]
  /\ itemTitles = <<>>

\* ai_query.js:113-122, the endpoint answers for title k: the joined text is
\* returned, or the catch block calls translateTitleSingle
GoogleTitleAnswered(k, r) ==
  /\ k \in SliceTitles
  /\ gtpc[k] = "google"
  /\ IF r \in {"text", "empty"}
       THEN /\ gtCalls' = [gtCalls EXCEPT ![k] = Answer(@, r)]
            /\ gtValue' = [gtValue EXCEPT ![k] = GoogleTitle(k, r)]
            /\ gtpc' = [gtpc EXCEPT ![k] = "done"]
       ELSE /\ gtCalls' = [gtCalls EXCEPT ![k] = Append(Answer(@, r), Sent("ai"))]
            /\ gtpc' = [gtpc EXCEPT ![k] = "single"]
            /\ gtValue' = gtValue
  /\ UNCHANGED <<sliceLen, itemTitles>>
  /\ UNCHANGED notTitle

\* ai_query.js:83-102, generateContent answers for title k
SingleTitleAnswered(k, r) ==
  /\ k \in SliceTitles
  /\ gtpc[k] = "single"
  /\ gtCalls' = [gtCalls EXCEPT ![k] = Answer(@, r)]
  /\ gtValue' = [gtValue EXCEPT ![k] = SingleTitle(k, r)]
  /\ gtpc' = [gtpc EXCEPT ![k] = "done"]
  /\ UNCHANGED <<sliceLen, itemTitles>>
  /\ UNCHANGED notTitle

\* ai_query.js:307-321, Promise.all has resolved: the titles of the slice are
\* pushed and the items get their titles
TitlesMapped ==
  /\ itemTitles = <<>>
  /\ \A k \in SliceTitles : gtpc[k] = "done"
  /\ itemTitles' = [k \in SliceTitles |-> FinalTitle(gtValue[k], k)]
  /\ UNCHANGED <<sliceLen, gtpc, gtCalls, gtValue>>
  /\ UNCHANGED notTitle

TitleNext ==
  \/ \E k \in 1..MaxSliceLen, r \in GoogleAnswers : GoogleTitleAnswered(k, r)
  \/ \E k \in 1..MaxSliceLen, r \in SingleAnswers : SingleTitleAnswered(k, r)
  \/ TitlesMapped

\* C36: for a title of a failed batch the endpoint is called once; only if that
\* call fails is the single-title model call made, once; only if that fails too
\* is the original title returned. The chain always returns a title, makes at
\* most two network calls per title, and the item's final title is the original
\* one whenever the translation obtained is missing or empty.
C36_TitleChain ==
  \A k \in SliceTitles :
    /\ gtpc[k] \in {"google", "single", "done"}
    /\ Len(gtCalls[k]) \in {1, 2}
    /\ gtCalls[k][1].to = "google"
    /\ Len(gtCalls[k]) = 2 =>
         /\ gtCalls[k][2].to = "ai"
         /\ gtCalls[k][1].resp \in {"malformed", "error"}
    /\ gtpc[k] = "done" =>
         /\ \A j \in 1..Len(gtCalls[k]) : gtCalls[k][j].resp # "pending"
         /\ gtValue[k].kind \in {"google", "empty", "ai", "original"}
         /\ gtValue[k].kind \in {"google", "empty"} <=> Len(gtCalls[k]) = 1
         /\ gtValue[k].kind = "original" <=>
              (Len(gtCalls[k]) = 2 /\ gtCalls[k][2].resp # "text")
         /\ gtValue[k].kind = "ai" <=>
              (Len(gtCalls[k]) = 2 /\ gtCalls[k][2].resp = "text")
    /\ itemTitles # <<>> =>
         /\ itemTitles[k].kind \in {"google", "ai", "original"}
         /\ itemTitles[k].of = k
         /\ gtValue[k].kind \in {"empty", "none"} => itemTitles[k] = OriginalTitle(k)
         /\ gtValue[k].kind \notin {"empty", "none"} => itemTitles[k] = gtValue[k]

\* of three titles one was translated by the endpoint, one got an empty answer
\* and keeps its original title, and one went through both calls in vain
C36_Witness ==
  /\ sliceLen = 3 /\ itemTitles # <<>>
  /\ gtValue[1].kind = "google"
  /\ gtValue[2].kind = "empty" /\ itemTitles[2] = OriginalTitle(2)
  /\ Len(gtCalls[3]) = 2 /\ gtCalls[3][2].resp = "error" /\ itemTitles[3] = OriginalTitle(3)

\* ------------------------------------------- translateContentByPhrases
\* the characters the contents are drawn from: a letter, a space, the CJK full
\* stop and the line feed (both in the character class of part_003:183)
PhraseChars == {"a", " ", "U+3002", "LF"}

PhraseTexts == UNION {[1..n -> PhraseChars] : n \in 0..MaxTextLen}

\* part_003:183, /(?<=[...])+/g: a quantifier applied to a lookbehind assertion.
\* The pattern grammar of ECMAScript lets a quantifier follow an atom and, outside
\* unicode mode, a lookahead (QuantifiableAssertion), never a lookbehind: the
\* literal is a SyntaxError, and evaluating it throws before split() is called.
SentenceRegExp == [thrown |-> TRUE, error |-> "SyntaxError"]

\* part_003:181-186
splitIntoSentences(text) == SentenceRegExp

NoPhraseOut == [settled |-> FALSE, thrown |-> FALSE, error |-> "none", translated |-> FALSE,
                segments |-> <<>>, failedPhrases |-> 0]

\* an async function whose body throws settles as a rejected promise
Rejected(error) == [NoPhraseOut EXCEPT !.settled = TRUE, !.thrown = TRUE, !.error = error]

PhrOff ==
  /\ phContent = <<>>
  /\ phrases = <<>>
  /\ translatedPhrases = <<>>
  /\ failedPhrases = 0
  /\ phpc = "off"
  /\ phOut = NoPhraseOut

\* part_003:274, translateContentByPhrases(content) is called
PhrInit ==
  /\ phContent \in PhraseTexts
  /\ phrases = <<>>
  /\ translatedPhrases = <<>>
  /\ failedPhrases = 0
  /\ phpc = "called"
  /\ phOut = NoPhraseOut

\* part_003:188-191, the body runs up to its first await: splitIntoSentences
\* throws at line 189, before phrases is assigned and before any phrase is sent
\* to a model, and the call rejects
PhrasesSplit ==
  /\ phpc = "called"
  /\ splitIntoSentences(phContent).thrown
  /\ phOut' = Rejected(splitIntoSentences(phContent).error)
  /\ phpc' = "settled"
  /\ UNCHANGED <<phContent, phrases, translatedPhrases, failedPhrases>>
  /\ UNCHANGED notPhr

PhrNext == PhrasesSplit

\* C38: translateContentByPhrases returns a result with one output segment per
\* input phrase, and its translated flag is true exactly when failedPhrases is
\* less than half the number of phrases.
C38_OneSegmentPerPhrase ==
  phpc = "settled" =>
    /\ ~phOut.thrown
    /\ Len(phOut.segments) = Len(phrases)
    /\ phOut.failedPhrases = failedPhrases
    /\ phOut.translated <=> (2 * failedPhrases < Len(phrases))

\* ------------------------------------------------------------ specifications

InitSem ==
  SemInit /\ ParOff /\ TtlOff /\ TcOff /\ RunsOff /\ ChunkOff /\ BatchOff /\ LastOff /\ UnitOff /\ MainOff /\ TitleOff /\ PhrOff

SpecSem == InitSem /\ [][SemNext]_vars

\* the event loop resumes run() once acquire() has resolved, and every task
\* started eventually returns or throws
FairSem ==
  \A c \in Callers :
    /\ WF_vars(StartTask(c))
    /\ WF_vars(\E outcome \in {"returned", "threw"} : TaskSettles(c, outcome))

SpecSemFair == InitSem /\ [][SemNext]_vars /\ FairSem

\* translateContentParallel builds no Semaphore: max is the capacity its limiter
\* is said to have, and no caller ever uses it
SemUnused ==
  /\ max \in 1..MaxCap
  /\ running = 0
  /\ queue = <<>>
  /\ pc = [c \in Callers |-> "off"]
  /\ taskResult = [c \in Callers |-> "none"]
  /\ runResult = [c \in Callers |-> "none"]
  /\ released = [c \in Callers |-> 0]
  /\ callOrder = <<>>
  /\ grantOrder = <<>>

InitPar ==
  ParInit /\ SemUnused /\ TtlOff /\ TcOff /\ RunsOff /\ ChunkOff /\ BatchOff /\ LastOff /\ UnitOff /\ MainOff /\ TitleOff /\ PhrOff

SpecPar == InitPar /\ [][ParNext]_vars

InitTtl ==
  TtlInit /\ SemOff /\ ParOff /\ TcOff /\ RunsOff /\ ChunkOff /\ BatchOff /\ LastOff /\ UnitOff /\ MainOff /\ TitleOff /\ PhrOff

SpecTtl == InitTtl /\ [][TtlNext]_vars

InitTc ==
  TcInit /\ SemOff /\ ParOff /\ TtlOff /\ RunsOff /\ ChunkOff /\ BatchOff /\ LastOff /\ UnitOff /\ MainOff /\ TitleOff /\ PhrOff

SpecTc == InitTc /\ [][TcNext]_vars

\* the module is loaded once (TcOff: currentModelIndex at its initial value) and
\* two batch runs use it
InitRuns ==
  RunsInit /\ SemOff /\ ParOff /\ TtlOff /\ TcOff /\ ChunkOff /\ BatchOff /\ LastOff /\ UnitOff /\ MainOff /\ TitleOff /\ PhrOff

SpecRuns == InitRuns /\ [][RunsNext]_vars

InitChunk ==
  ChunkInit /\ SemOff /\ ParOff /\ TtlOff /\ TcOff /\ RunsOff /\ BatchOff /\ LastOff /\ UnitOff /\ MainOff /\ TitleOff /\ PhrOff

SpecChunk == InitChunk /\ [][ChunkNext]_vars

InitBatch ==
  BatchInit /\ SemOff /\ ParOff /\ TtlOff /\ TcOff /\ RunsOff /\ ChunkOff /\ LastOff /\ UnitOff /\ MainOff /\ TitleOff /\ PhrOff

SpecBatch == InitBatch /\ [][BatchNext]_vars

InitLast ==
  LastInit /\ SemOff /\ ParOff /\ TtlOff /\ TcOff /\ RunsOff /\ ChunkOff /\ BatchOff /\ UnitOff /\ MainOff /\ TitleOff /\ PhrOff

SpecLast == InitLast /\ [][LastNext]_vars

InitUnit ==
  UnitInit /\ SemOff /\ ParOff /\ TtlOff /\ TcOff /\ RunsOff /\ ChunkOff /\ BatchOff /\ LastOff /\ MainOff /\ TitleOff /\ PhrOff

SpecUnit == InitUnit /\ [][UnitNext]_vars

InitMain ==
  MainInit /\ SemOff /\ ParOff /\ TtlOff /\ TcOff /\ RunsOff /\ ChunkOff /\ BatchOff /\ LastOff /\ UnitOff /\ TitleOff /\ PhrOff

SpecMain == InitMain /\ [][MainNext]_vars

\* the batch variants that count their items: translateContentParallel and the
\* sequential loops of main
InitCounts == InitPar \/ InitMain

CountsNext == ParNext \/ MainNext

SpecCounts == InitCounts /\ [][CountsNext]_vars

InitTitle ==
  TitleInit /\ SemOff /\ ParOff /\ TtlOff /\ TcOff /\ RunsOff /\ ChunkOff /\ BatchOff /\ LastOff /\ MainOff /\ UnitOff /\ PhrOff

SpecTitle == InitTitle /\ [][TitleNext]_vars

InitPhr ==
  PhrInit /\ SemOff /\ ParOff /\ TtlOff /\ TcOff /\ RunsOff /\ ChunkOff /\ BatchOff /\ LastOff /\ MainOff /\ TitleOff /\ UnitOff

SpecPhr == InitPhr /\ [][PhrNext]_vars

Init ==
  \/ InitSem \/ InitPar \/ InitTtl \/ InitTc \/ InitRuns \/ InitChunk \/ InitBatch
  \/ InitLast \/ InitUnit \/ InitMain \/ InitTitle \/ InitPhr
Next ==
  \/ SemNext \/ ParNext \/ TtlNext \/ TcNext \/ RunsNext \/ ChunkNext \/ BatchNext
  \/ LastNext \/ UnitNext \/ MainNext \/ TitleNext \/ PhrNext
Spec == Init /\ [][Next]_vars

====
